---- MODULE Spec2Model ----
(***************************************************************************)
(* Model of pt_volume.py: the volume analyzer (rolling statistics), the    *)
(* volume profile calculator, the volume filter (ordered rejection rules)  *)
(* and the backtest loop.                                                  *)
(*                                                                         *)
(* Python floats are modelled as binary floating-point numbers with        *)
(* round-to-nearest-even and a mantissa of MantBits bits (CPython: 53;     *)
(* TLC integers are 32 bit wide, so the model keeps fewer).  The exponent  *)
(* is unbounded: overflow, underflow, infinities and NaN are not modelled. *)
(* A float is the pair <<m, e>> with value m * 2^e, m odd, or <<0, 0>>.    *)
(***************************************************************************)
EXTENDS Integers, Sequences, FiniteSets, TLC

\* Mantissa width of the modelled floats.
MantBits == 11

\* Longest candle stream fed to one analyzer.
MaxCandles == 10

\* Longest candle stream of a scaled replay.
MaxScaledCandles == 6

\* Longest candle list handed to calculate_profile.
MaxProfileCandles == 10

\* Longest candle stream fed while the filter is called.
MaxFilterCandles == 2

\* Longest candle list and largest warmup of a backtest.
MaxBacktestCandles == 3

MaxWarmup == 4

\* Longest candle stream whose candles are kept beside the analyzer fed with it.
MaxStreamCandles == 6

\* Length of the candle stream of each of the two symbols.
MaxSymbolCandles == 2

\* Most rows the volume_decisions table takes.
MaxStoreRows == 3

\* Most candles of a tape that outgrows the VWAP window of 50 pairs.
MaxTapeCandles == 52

(***************************************************************************)
(* State                                                                   *)
(***************************************************************************)
VARIABLES
    inputs,           \* the (close, volume) pairs the candle source may deliver
    candles,          \* a candle list handed over as a whole
    analyzer,         \* a VolumeAnalyzer instance
    metrics,          \* metrics_list[-1:]: the last VolumeMetrics it returned
    scale,            \* k: the factor of the scaled replay
    scaled_analyzer,  \* a fresh VolumeAnalyzer fed the same candles, volumes * k
    scaled_metrics,   \* the last VolumeMetrics of the scaled replay
    config,           \* VolumeFilter.config
    verdict,          \* the last should_allow_entry call: arguments and result
    profile,          \* the VolumeProfile calculate_profile returned, if any
    bt,               \* backtest_volume: arguments, position and locals
    symbols,          \* two symbols' candle streams and the analyzers fed with them
    store,            \* the volume_decisions table and the last call on the logger
    sizing            \* a PositionSizer and its last calculate_position_size call

vars == <<inputs, candles, analyzer, metrics, scale, scaled_analyzer, scaled_metrics,
          config, verdict, profile, bt, symbols, store, sizing>>

(***************************************************************************)
(* Integer helpers                                                         *)
(***************************************************************************)
Pow2(n) == 2 ^ n

Abs(x) == IF x < 0 THEN -x ELSE x

Sign(x) == IF x < 0 THEN -1 ELSE 1

Min(a, b) == IF a < b THEN a ELSE b

Max(a, b) == IF a > b THEN a ELSE b

\* Number of bits of n >= 0, four bits a step.
RECURSIVE BitLen(_)
BitLen(n) ==
    IF n >= 16 THEN 4 + BitLen(n \div 16)
    ELSE IF n >= 8 THEN 4
    ELSE IF n >= 4 THEN 3
    ELSE IF n >= 2 THEN 2
    ELSE n

RECURSIVE ISqrt(_)
ISqrt(n) ==
    IF n < 2 THEN n
    ELSE LET s == 2 * ISqrt(n \div 4)
         IN  IF (s + 1) * (s + 1) <= n THEN s + 1 ELSE s

(***************************************************************************)
(* Floating point: IEEE-754 round-to-nearest, ties-to-even                 *)
(***************************************************************************)
Zero == <<0, 0>>

RECURSIVE Norm(_, _)
Norm(m, e) ==
    IF m = 0 THEN Zero
    ELSE IF m % 16 = 0 THEN Norm(m \div 16, e + 4)
    ELSE IF m % 2 = 0 THEN Norm(m \div 2, e + 1)
    ELSE <<m, e>>

\* n >= 0 shifted right by k >= 1 bits, rounded to nearest, ties to even.
RoundHalfEven(n, k) ==
    LET q    == n \div Pow2(k)
        r    == n % Pow2(k)
        half == Pow2(k - 1)
    IN  IF r > half \/ (r = half /\ q % 2 = 1) THEN q + 1 ELSE q

\* The float nearest to the exact dyadic value m * 2^e.
FRound(m, e) ==
    LET a == Abs(m)
        k == BitLen(a) - MantBits
    IN  IF k <= 0 THEN Norm(m, e)
        ELSE Norm(Sign(m) * RoundHalfEven(a, k), e + k)

FromInt(n) == FRound(n, 0)

\* Exact comparison and sign tests.
FCmpKey(a, b) ==
    LET e == Min(a[2], b[2])
    IN  a[1] * Pow2(a[2] - e) - b[1] * Pow2(b[2] - e)

FLt(a, b) == FCmpKey(a, b) < 0

FGt(a, b) == FCmpKey(a, b) > 0

FLe(a, b) == FCmpKey(a, b) <= 0

FGe(a, b) == FCmpKey(a, b) >= 0

FNeg(a) == <<-a[1], a[2]>>

FAbs(a) == <<Abs(a[1]), a[2]>>

FAdd(a, b) ==
    IF a[1] = 0 THEN b
    ELSE IF b[1] = 0 THEN a
    ELSE LET e == Min(a[2], b[2])
         IN  FRound(a[1] * Pow2(a[2] - e) + b[1] * Pow2(b[2] - e), e)

FSub(a, b) == FAdd(a, FNeg(b))

FMul(a, b) == FRound(a[1] * b[1], a[2] + b[2])

\* a / b for b # 0: the quotient is computed to MantBits + 2 bits and a
\* sticky bit, which rounds as the exact quotient does.
FDiv(a, b) ==
    IF a[1] = 0 THEN Zero
    ELSE LET ma == Abs(a[1])
             mb == Abs(b[1])
             s  == Max(0, MantBits + 2 + BitLen(mb) - BitLen(ma))
             n  == ma * Pow2(s)
             q  == n \div mb
             r  == n % mb
             q2 == 2 * q + (IF r # 0 THEN 1 ELSE 0)
         IN  FRound(Sign(a[1]) * Sign(b[1]) * q2, a[2] - b[2] - s - 1)

\* math.sqrt(a) for a >= 0, correctly rounded.
FSqrt(a) ==
    IF a[1] = 0 THEN Zero
    ELSE LET s0 == Max(0, 2 * MantBits + 4 - BitLen(a[1]))
             s  == IF (a[2] - s0) % 2 = 0 THEN s0 ELSE s0 + 1
             n  == a[1] * Pow2(s)
             r  == ISqrt(n)
             r2 == 2 * r + (IF r * r # n THEN 1 ELSE 0)
         IN  FRound(r2, ((a[2] - s) \div 2) - 1)

\* A decimal literal num/den of the source text, e.g. 0.3 is Lit(3, 10).
Lit(num, den) == FDiv(FromInt(num), FromInt(den))


(***************************************************************************)
(* Python list helpers                                                     *)
(***************************************************************************)
\* values[-n:] for n >= 1
LastN(values, n) ==
    SubSeq(values, Max(1, Len(values) - n + 1), Len(values))

\* values[:n]
FirstN(values, n) == SubSeq(values, 1, Min(n, Len(values)))

\* values[n:]
DropN(values, n) == SubSeq(values, n + 1, Len(values))

\* sum(values[:n]): left to right from the integer 0, one rounding per
\* addition.  The test on acc has the running sum computed at each step.
RECURSIVE FSumAcc(_, _, _, _)
FSumAcc(values, i, n, acc) ==
    IF i > n \/ acc = <<>> THEN acc
    ELSE FSumAcc(values, i + 1, n, FAdd(acc, values[i]))

FSumTo(values, n) == FSumAcc(values, 1, n, Zero)

FSum(values) == FSumTo(values, Len(values))

\* Optional[float]: <<>> is None, <<x>> is the float x.
None == <<>>

Some(x) == <<x>>

(***************************************************************************)
(* VolumeAnalyzer                                                          *)
(***************************************************************************)
\* The window of the VWAP: min(50, len(price_volume_history)).
VwapWindow == 50

\* detect_trend's default min_periods.
TrendMinPeriods == 5

\* Samples needed before a z-score is computed.
ZScoreMinSamples == 10

\* VolumeAnalyzer.__init__
NewAnalyzer(sma_periods, ema_periods) ==
    [sma_periods          |-> sma_periods,
     ema_periods          |-> ema_periods,
     maxlen               |-> Max(sma_periods, ema_periods) * 2,
     volume_history       |-> <<>>,
     price_volume_history |-> <<>>]

\* A deque without maxlen: nothing ever falls out.
DequeAppend_unbounded(window, maxlen, x) == Append(window, x)

\* deque.append with maxlen: the oldest entry falls out of a full window.
DequeAppend(window, maxlen, x) ==
    IF Len(window) >= maxlen THEN Append(Tail(window), x) ELSE Append(window, x)

\* calculate_sma as the mean of the whole window, whatever the period.
calculate_sma_whole(values, period) ==
    IF values # <<>> THEN FDiv(FSum(values), FromInt(Len(values))) ELSE Zero

\* calculate_sma giving up (0) while fewer than period values exist.
calculate_sma_strict(values, period) ==
    IF Len(values) < period THEN Zero
    ELSE FDiv(FSum(LastN(values, period)), FromInt(period))

calculate_sma(values, period) ==
    IF Len(values) < period
    THEN IF values # <<>> THEN FDiv(FSum(values), FromInt(Len(values))) ELSE Zero
    ELSE FDiv(FSum(LastN(values, period)), FromInt(period))

\* calculate_ema with the multiplier 2 / period.
calculate_ema_period_alpha(current, prev_ema, period) ==
    IF prev_ema = None THEN current
    ELSE LET multiplier == FDiv(FromInt(2), FromInt(period))
         IN  FAdd(FMul(current, multiplier),
                  FMul(prev_ema[1], FSub(FromInt(1), multiplier)))

calculate_ema(current, prev_ema, period) ==
    IF prev_ema = None THEN current
    ELSE LET multiplier == FDiv(FromInt(2), FromInt(period + 1))
         IN  FAdd(FMul(current, multiplier),
                  FMul(prev_ema[1], FSub(FromInt(1), multiplier)))

\* calculate_vwap dividing by the number of pairs instead of the total volume.
calculate_vwap_by_count(prices, volumes) ==
    IF prices = <<>> \/ volumes = <<>> \/ Len(prices) # Len(volumes) THEN Zero
    ELSE LET total_pv     == FSum([i \in 1..Len(prices) |-> FMul(prices[i], volumes[i])])
             total_volume == FSum(volumes)
         IN  IF FGt(total_volume, Zero) THEN FDiv(total_pv, FromInt(Len(prices)))
             ELSE Zero

calculate_vwap(prices, volumes) ==
    IF prices = <<>> \/ volumes = <<>> \/ Len(prices) # Len(volumes) THEN Zero
    ELSE LET total_pv     == FSum([i \in 1..Len(prices) |-> FMul(prices[i], volumes[i])])
             total_volume == FSum(volumes)
         IN  IF FGt(total_volume, Zero) THEN FDiv(total_pv, total_volume) ELSE Zero

calculate_z_score(value, mean, std) ==
    IF std = Zero THEN Zero ELSE FDiv(FSub(value, mean), std)

\* detect_trend without its length guard.
detect_trend_noguard(volumes, min_periods) ==
    LET recent          == LastN(volumes, min_periods)
        half            == min_periods \div 2
        avg_first_half  == FDiv(FSum(FirstN(recent, half)), FromInt(half))
        avg_second_half == FDiv(FSum(DropN(recent, half)), FromInt(min_periods - half))
        change_pct      ==
            IF FGt(avg_first_half, Zero)
            THEN FMul(FDiv(FSub(avg_second_half, avg_first_half), avg_first_half),
                      FromInt(100))
            ELSE Zero
    IN  IF FGt(change_pct, FromInt(10)) THEN "increasing"
        ELSE IF FLt(change_pct, FromInt(-10)) THEN "decreasing"
        ELSE "stable"

\* detect_trend with a change of exactly 10% counted as a trend.
detect_trend_inclusive(volumes, min_periods) ==
    IF Len(volumes) < min_periods THEN "stable"
    ELSE LET recent          == LastN(volumes, min_periods)
             half            == min_periods \div 2
             avg_first_half  == FDiv(FSum(FirstN(recent, half)), FromInt(half))
             avg_second_half == FDiv(FSum(DropN(recent, half)),
                                     FromInt(min_periods - half))
             change_pct      ==
                 IF FGt(avg_first_half, Zero)
                 THEN FMul(FDiv(FSub(avg_second_half, avg_first_half), avg_first_half),
                           FromInt(100))
                 ELSE Zero
         IN  IF FGe(change_pct, FromInt(10)) THEN "increasing"
             ELSE IF FLe(change_pct, FromInt(-10)) THEN "decreasing"
             ELSE "stable"

detect_trend(volumes, min_periods) ==
    IF Len(volumes) < min_periods THEN "stable"
    ELSE LET recent          == LastN(volumes, min_periods)
             half            == min_periods \div 2
             avg_first_half  == FDiv(FSum(FirstN(recent, half)), FromInt(half))
             avg_second_half == FDiv(FSum(DropN(recent, half)),
                                     FromInt(min_periods - half))
             change_pct      ==
                 IF FGt(avg_first_half, Zero)
                 THEN FMul(FDiv(FSub(avg_second_half, avg_first_half), avg_first_half),
                           FromInt(100))
                 ELSE Zero
         IN  IF FGt(change_pct, FromInt(10)) THEN "increasing"
             ELSE IF FLt(change_pct, FromInt(-10)) THEN "decreasing"
             ELSE "stable"

\* The VWAP falling back to the last close when the window's volume is 0.
window_vwap_last_price(price_volume_history) ==
    LET vwap_window    == Min(VwapWindow, Len(price_volume_history))
        recent         == LastN(price_volume_history, vwap_window)
        recent_prices  == [i \in 1..Len(recent) |-> recent[i][1]]
        recent_volumes == [i \in 1..Len(recent) |-> recent[i][2]]
    IN  IF recent # <<>> /\ ~FGt(FSum(recent_volumes), Zero)
        THEN recent_prices[Len(recent)]
        ELSE calculate_vwap(recent_prices, recent_volumes)

\* The VWAP over every pair fed so far, not the trailing window.
window_vwap_full_history(price_volume_history) ==
    LET recent_prices  == [i \in 1..Len(price_volume_history) |->
                              price_volume_history[i][1]]
        recent_volumes == [i \in 1..Len(price_volume_history) |->
                              price_volume_history[i][2]]
    IN  calculate_vwap(recent_prices, recent_volumes)

\* analyze_candle, the VWAP over the trailing window of (close, volume) pairs.
window_vwap(price_volume_history) ==
    LET vwap_window    == Min(VwapWindow, Len(price_volume_history))
        recent         == LastN(price_volume_history, vwap_window)
        recent_prices  == [i \in 1..Len(recent) |-> recent[i][1]]
        recent_volumes == [i \in 1..Len(recent) |-> recent[i][2]]
    IN  calculate_vwap(recent_prices, recent_volumes)

\* The ratio guarded by volume_sma > 1 instead of volume_sma > 0.
volume_ratio_guard_one(volume, volume_sma) ==
    IF FGt(volume_sma, FromInt(1)) THEN FDiv(volume, volume_sma) ELSE FromInt(1)

\* The ratio defaulting to 0 instead of 1.0 when the SMA is 0.
volume_ratio_zero_default(volume, volume_sma) ==
    IF FGt(volume_sma, Zero) THEN FDiv(volume, volume_sma) ELSE Zero

\* analyze_candle, current volume over SMA.
volume_ratio_of(volume, volume_sma) ==
    IF FGt(volume_sma, Zero) THEN FDiv(volume, volume_sma) ELSE FromInt(1)

\* The z-score computed from TrendMinPeriods samples on.
window_z_score_early(volume_list, volume) ==
    IF Len(volume_list) >= TrendMinPeriods
    THEN LET n        == FromInt(Len(volume_list))
             mean_vol == FDiv(FSum(volume_list), n)
             sq(v)    == LET d == FSub(v, mean_vol) IN FMul(d, d)
             std_vol  == FSqrt(FDiv(FSum([i \in 1..Len(volume_list) |->
                                             sq(volume_list[i])]), n))
         IN  calculate_z_score(volume, mean_vol, std_vol)
    ELSE Zero

\* analyze_candle, the population z-score of the candle over the whole window.
window_z_score(volume_list, volume) ==
    IF Len(volume_list) >= ZScoreMinSamples
    THEN LET n        == FromInt(Len(volume_list))
             mean_vol == FDiv(FSum(volume_list), n)
             sq(v)    == LET d == FSub(v, mean_vol) IN FMul(d, d)
             std_vol  == FSqrt(FDiv(FSum([i \in 1..Len(volume_list) |->
                                             sq(volume_list[i])]), n))
         IN  calculate_z_score(volume, mean_vol, std_vol)
    ELSE Zero

\* The anomaly typed without regard to the sign of the z-score.
anomaly_of_signless(z_score) ==
    IF FGt(z_score, Lit(25, 10)) \/ FLt(z_score, FNeg(Lit(25, 10)))
    THEN [anomaly |-> TRUE, anomaly_type |-> "high_volume"]
    ELSE [anomaly |-> FALSE, anomaly_type |-> ""]

\* analyze_candle, the analyzer's own anomaly tier: |z| > 2.5.
anomaly_of(z_score) ==
    IF FGt(z_score, Lit(25, 10)) THEN [anomaly |-> TRUE, anomaly_type |-> "high_volume"]
    ELSE IF FLt(z_score, FNeg(Lit(25, 10)))
         THEN [anomaly |-> TRUE, anomaly_type |-> "low_volume"]
    ELSE [anomaly |-> FALSE, anomaly_type |-> ""]

\* analyze_candle: the analyzer after the call and the metrics it returns.
analyze_candle(self, candle, prev_ema) ==
    LET volume_history       == DequeAppend(self.volume_history, self.maxlen, candle.volume)
        price_volume_history == Append(self.price_volume_history,
                                       <<candle.close, candle.volume>>)
        volume_sma   == calculate_sma(volume_history, self.sma_periods)
        volume_ema   == calculate_ema(candle.volume, prev_ema, self.ema_periods)
        vwap         == window_vwap(price_volume_history)
        volume_ratio == volume_ratio_of(candle.volume, volume_sma)
        z_score      == window_z_score(volume_history, candle.volume)
        trend        == detect_trend(volume_history, TrendMinPeriods)
        a            == anomaly_of(z_score)
    IN  [self    |-> [self EXCEPT !.volume_history = volume_history,
                                  !.price_volume_history = price_volume_history],
         metrics |-> [timestamp    |-> candle.timestamp,
                      volume       |-> candle.volume,
                      volume_sma   |-> volume_sma,
                      volume_ema   |-> volume_ema,
                      vwap         |-> vwap,
                      volume_ratio |-> volume_ratio,
                      z_score      |-> z_score,
                      trend        |-> trend,
                      anomaly      |-> a.anomaly,
                      anomaly_type |-> a.anomaly_type]]


(***************************************************************************)
(* VolumeAnalyzer.calculate_profile                                        *)
(***************************************************************************)
\* sorted(values) for floats
RECURSIVE Insert(_, _)
Insert(sorted, x) ==
    IF sorted = <<>> THEN <<x>>
    ELSE IF FLe(sorted[Len(sorted)], x) THEN Append(sorted, x)
    ELSE Append(Insert(SubSeq(sorted, 1, Len(sorted) - 1), x), sorted[Len(sorted)])

RECURSIVE SortedTo(_, _)
SortedTo(values, n) ==
    IF n = 0 THEN <<>> ELSE Insert(SortedTo(values, n - 1), values[n])

Sorted(values) == SortedTo(values, Len(values))

\* int(count * num/100) for the literals 0.25, 0.50, 0.75 and 0.90: the
\* product is within an ulp of count * num / 100, so that truncation gives
\* the integer floor for every count a list can have.
PctIndex(count, num) == (count * num) \div 100

\* candle.datetime.date(): the day of an epoch timestamp (UTC)
DateOf(timestamp) == timestamp \div 86400

Period(label, first, last) == [label |-> label, first |-> first, last |-> last]

UnknownPeriod == Period("unknown", 0, 0)

NewProfile(period, avg, median, p25, p50, p75, p90, std, total, count) ==
    [period        |-> period,
     avg_volume    |-> avg,
     median_volume |-> median,
     p25_volume    |-> p25,
     p50_volume    |-> p50,
     p75_volume    |-> p75,
     p90_volume    |-> p90,
     std_volume    |-> std,
     total_volume  |-> total,
     candle_count  |-> count]

\* The empty profile with an empty period label.
empty_profile_no_label ==
    NewProfile(Period("", 0, 0), Zero, Zero, Zero, Zero, Zero, Zero, Zero, Zero, 0)

\* calculate_profile, the profile of no candles
empty_profile ==
    NewProfile(UnknownPeriod, Zero, Zero, Zero, Zero, Zero, Zero, Zero, Zero, 0)

\* profile_of with p90 falling back to the smallest volume.
profile_of_p90_low(candle_list) ==
    LET volumes        == [i \in 1..Len(candle_list) |-> candle_list[i].volume]
        volumes_sorted == Sorted(volumes)
        count          == Len(volumes)
        avg            == FDiv(FSum(volumes), FromInt(count))
        sq(v)          == LET d == FSub(v, avg) IN FMul(d, d)
        at(k)          == volumes_sorted[k + 1]
    IN  NewProfile(
            Period("range", DateOf(candle_list[1].timestamp),
                   DateOf(candle_list[count].timestamp)),
            avg,
            at(count \div 2),
            IF count >= 4 THEN at(PctIndex(count, 25)) ELSE at(0),
            IF count >= 2 THEN at(PctIndex(count, 50)) ELSE at(0),
            IF count >= 4 THEN at(PctIndex(count, 75)) ELSE at(count - 1),
            IF count >= 10 THEN at(PctIndex(count, 90)) ELSE at(0),
            FSqrt(FDiv(FSum([i \in 1..count |-> sq(volumes[i])]), FromInt(count))),
            FSum(volumes),
            count)

\* The profile with the median interpolated between the two middle volumes
\* of an even count.
profile_of_interpolated(candle_list) ==
    LET volumes        == [i \in 1..Len(candle_list) |-> candle_list[i].volume]
        volumes_sorted == Sorted(volumes)
        count          == Len(volumes)
        avg            == FDiv(FSum(volumes), FromInt(count))
        sq(v)          == LET d == FSub(v, avg) IN FMul(d, d)
        at(k)          == volumes_sorted[k + 1]
    IN  NewProfile(
            Period("range", DateOf(candle_list[1].timestamp),
                   DateOf(candle_list[count].timestamp)),
            avg,
            IF count % 2 = 0
            THEN FDiv(FAdd(at(count \div 2 - 1), at(count \div 2)), FromInt(2))
            ELSE at(count \div 2),
            IF count >= 4 THEN at(PctIndex(count, 25)) ELSE at(0),
            IF count >= 2 THEN at(PctIndex(count, 50)) ELSE at(0),
            IF count >= 4 THEN at(PctIndex(count, 75)) ELSE at(count - 1),
            IF count >= 10 THEN at(PctIndex(count, 90)) ELSE at(count - 1),
            FSqrt(FDiv(FSum([i \in 1..count |-> sq(volumes[i])]), FromInt(count))),
            FSum(volumes),
            count)

\* calculate_profile, the profile of a non-empty candle list
profile_of(candle_list) ==
    LET volumes        == [i \in 1..Len(candle_list) |-> candle_list[i].volume]
        volumes_sorted == Sorted(volumes)
        count          == Len(volumes)
        avg            == FDiv(FSum(volumes), FromInt(count))
        sq(v)          == LET d == FSub(v, avg) IN FMul(d, d)
        at(k)          == volumes_sorted[k + 1]
    IN  NewProfile(
            Period("range", DateOf(candle_list[1].timestamp),
                   DateOf(candle_list[count].timestamp)),
            avg,
            at(count \div 2),
            IF count >= 4 THEN at(PctIndex(count, 25)) ELSE at(0),
            IF count >= 2 THEN at(PctIndex(count, 50)) ELSE at(0),
            IF count >= 4 THEN at(PctIndex(count, 75)) ELSE at(count - 1),
            IF count >= 10 THEN at(PctIndex(count, 90)) ELSE at(count - 1),
            FSqrt(FDiv(FSum([i \in 1..count |-> sq(volumes[i])]), FromInt(count))),
            FSum(volumes),
            count)

calculate_profile(candle_list) ==
    IF candle_list = <<>> THEN empty_profile ELSE profile_of(candle_list)

(***************************************************************************)
(* VolumeFilter                                                            *)
(***************************************************************************)
\* The defaults with the z-score tier of the filter at 3.0 / -3.0.
DefaultConfig_wide ==
    [min_volume_ratio          |-> Lit(5, 10),
     max_volume_ratio          |-> FromInt(3),
     high_volume_zscore        |-> FromInt(3),
     low_volume_zscore         |-> FromInt(-3),
     require_increasing_volume |-> FALSE,
     vwap_distance_pct         |-> Lit(5, 10)]

\* VolumeBacktestConfig with its defaults
DefaultConfig ==
    [min_volume_ratio          |-> Lit(5, 10),
     max_volume_ratio          |-> FromInt(3),
     high_volume_zscore        |-> FromInt(2),
     low_volume_zscore         |-> FromInt(-2),
     require_increasing_volume |-> FALSE,
     vwap_distance_pct         |-> Lit(5, 10)]

\* A reason string: the words of its literal text, and the values formatted
\* into it (value and limit are numbers, trend a trend name).
Reason(text, value, limit, trend) ==
    [text |-> text, value |-> value, limit |-> limit, trend |-> trend]

TooLowText == <<"Volume", "too", "low", ":", "x", "average", "(", "min", ":", "x", ")">>

SpikeText == <<"Volume", "spike", "anomaly", ":", "x", "average", "(", "max", ":", "x", ")">>

HighZText == <<"High", "volume", "anomaly", ":", "z-score", "(", "threshold", ":", ")">>

LowZText == <<"Low", "volume", "anomaly", ":", "z-score", "(", "threshold", ":", ")">>

NoTrendText == <<"Volume", "trend", "not", "increasing", ":">>

VwapFarText == <<"Price", "too", "far", "from", "VWAP", ":", "%", "(", "max", ":", "%", ")">>

ConfirmsText == <<"Volume", "confirms", "entry", ":", "x", "average", ",", "trend", ":">>

Verdict(allow, reason, confidence) ==
    [allow |-> allow, reason |-> reason, confidence |-> confidence]

\* The distance left a fraction: |price - vwap| / vwap, not multiplied by 100.
VwapDistance_fraction(vwap, price) == FAbs(FDiv(FSub(price, vwap), vwap))

\* |price - vwap| / vwap as a percentage, for vwap > 0.
VwapDistancePct(vwap, price) ==
    FMul(FAbs(FDiv(FSub(price, vwap), vwap)), FromInt(100))

\* min(confidence, 1.0) without the cap.
FMin_nocap(a, b) == a

FMin(a, b) == IF FLt(b, a) THEN b ELSE a

\* should_allow_entry letting every entry through while the shared analyzer
\* has seen fewer than two candles.  (A mutant that reads state.)
should_allow_entry_warming_up(cfg, m, price) ==
    IF Len(analyzer.volume_history) < 2
    THEN Verdict(TRUE, Reason(ConfirmsText, m.volume_ratio, Zero, m.trend), FromInt(1))
    ELSE IF FLt(m.volume_ratio, cfg.min_volume_ratio)
    THEN Verdict(FALSE, Reason(TooLowText, m.volume_ratio, cfg.min_volume_ratio, ""),
                 Lit(3, 10))
    ELSE Verdict(TRUE, Reason(ConfirmsText, m.volume_ratio, Zero, m.trend), FromInt(1))

\* should_allow_entry with the z-score rules tried before the ratio rules.
should_allow_entry_zscore_first(cfg, m, price) ==
    LET confidence == FromInt(1)
    IN  IF FGt(m.z_score, cfg.high_volume_zscore)
        THEN Verdict(FALSE, Reason(HighZText, m.z_score, cfg.high_volume_zscore, ""),
                     FMul(confidence, Lit(4, 10)))
        ELSE IF FLt(m.z_score, cfg.low_volume_zscore)
        THEN Verdict(FALSE, Reason(LowZText, m.z_score, cfg.low_volume_zscore, ""),
                     FMul(confidence, Lit(3, 10)))
        ELSE IF FLt(m.volume_ratio, cfg.min_volume_ratio)
        THEN Verdict(FALSE, Reason(TooLowText, m.volume_ratio, cfg.min_volume_ratio, ""),
                     FMul(confidence, Lit(3, 10)))
        ELSE IF FGt(m.volume_ratio, cfg.max_volume_ratio)
        THEN Verdict(FALSE, Reason(SpikeText, m.volume_ratio, cfg.max_volume_ratio, ""),
                     FMul(confidence, Lit(2, 10)))
        ELSE IF cfg.require_increasing_volume /\ m.trend # "increasing"
        THEN Verdict(FALSE, Reason(NoTrendText, Zero, Zero, m.trend),
                     FMul(confidence, Lit(6, 10)))
        ELSE IF FGt(m.vwap, Zero)
                /\ FGt(VwapDistancePct(m.vwap, price), cfg.vwap_distance_pct)
        THEN Verdict(FALSE, Reason(VwapFarText, VwapDistancePct(m.vwap, price),
                                   cfg.vwap_distance_pct, ""),
                     FMul(confidence, Lit(7, 10)))
        ELSE Verdict(TRUE, Reason(ConfirmsText, m.volume_ratio, Zero, m.trend),
                     FMin(IF FGt(m.vwap, Zero) THEN FMul(confidence, Lit(12, 10))
                          ELSE confidence, FromInt(1)))

\* should_allow_entry(self, metrics, price) with self.config = cfg:
\* (allow, reason, confidence)
should_allow_entry(cfg, m, price) ==
    LET confidence == FromInt(1)
    IN  IF FLt(m.volume_ratio, cfg.min_volume_ratio)
        THEN Verdict(FALSE, Reason(TooLowText, m.volume_ratio, cfg.min_volume_ratio, ""),
                     FMul(confidence, Lit(3, 10)))
        ELSE IF FGt(m.volume_ratio, cfg.max_volume_ratio)
        THEN Verdict(FALSE, Reason(SpikeText, m.volume_ratio, cfg.max_volume_ratio, ""),
                     FMul(confidence, Lit(2, 10)))
        ELSE IF FGt(m.z_score, cfg.high_volume_zscore)
        THEN Verdict(FALSE, Reason(HighZText, m.z_score, cfg.high_volume_zscore, ""),
                     FMul(confidence, Lit(4, 10)))
        ELSE IF FLt(m.z_score, cfg.low_volume_zscore)
        THEN Verdict(FALSE, Reason(LowZText, m.z_score, cfg.low_volume_zscore, ""),
                     FMul(confidence, Lit(3, 10)))
        ELSE IF cfg.require_increasing_volume /\ m.trend # "increasing"
        THEN Verdict(FALSE, Reason(NoTrendText, Zero, Zero, m.trend),
                     FMul(confidence, Lit(6, 10)))
        ELSE IF FGt(m.vwap, Zero)
                /\ FGt(VwapDistancePct(m.vwap, price), cfg.vwap_distance_pct)
        THEN Verdict(FALSE, Reason(VwapFarText, VwapDistancePct(m.vwap, price),
                                   cfg.vwap_distance_pct, ""),
                     FMul(confidence, Lit(7, 10)))
        ELSE Verdict(TRUE, Reason(ConfirmsText, m.volume_ratio, Zero, m.trend),
                     FMin(IF FGt(m.vwap, Zero) THEN FMul(confidence, Lit(12, 10))
                          ELSE confidence, FromInt(1)))

\* needle in text, both sequences of words
Contains(text, needle) ==
    \E i \in 1..(Len(text) - Len(needle) + 1) :
        SubSeq(text, i, i + Len(needle) - 1) = needle

\* The classification without the test for a volume spike.
classify_no_spike(allow, reason) ==
    IF allow THEN "allow"
    ELSE IF Contains(reason.text, <<"too", "low">>) THEN "reject_low_volume"
    ELSE IF Contains(reason.text, <<"High", "volume", "anomaly">>)
         THEN "reject_high_volume"
    ELSE IF Contains(reason.text, <<"trend", "not">>) THEN "reject_no_trend"
    ELSE "reject"

\* make_decision's classification of a verdict
classify(allow, reason) ==
    IF allow THEN "allow"
    ELSE IF Contains(reason.text, <<"too", "low">>) THEN "reject_low_volume"
    ELSE IF Contains(reason.text, <<"spike", "anomaly">>)
            \/ Contains(reason.text, <<"High", "volume", "anomaly">>)
         THEN "reject_high_volume"
    ELSE IF Contains(reason.text, <<"trend", "not">>) THEN "reject_no_trend"
    ELSE "reject"

\* make_decision(self, candle, metrics, coin); the timestamp datetime.now()
\* is left out.
make_decision(cfg, candle, m, coin) ==
    LET v == should_allow_entry(cfg, m, candle.close)
    IN  [coin       |-> coin,
         price      |-> candle.close,
         volume     |-> candle.volume,
         metrics    |-> m,
         decision   |-> classify(v.allow, v.reason),
         reason     |-> v.reason,
         confidence |-> v.confidence]

(***************************************************************************)
(* Inputs                                                                  *)
(***************************************************************************)
\* (sma_periods, ema_periods) of the analyzers under test.
PeriodChoices == {<<5, 5>>, <<2, 3>>}

\* Scaling factors k > 0.
Scales == {FromInt(2), FromInt(3), Lit(1, 2), Lit(1, 10)}

Pair(close, volume) == [close |-> close, volume |-> volume]

\* What one candle stream may contain.
InputClasses ==
    { {Pair(Lit(1, 10), FromInt(1)),  Pair(Lit(1, 10), FromInt(3))},
      {Pair(FromInt(100), FromInt(100)), Pair(FromInt(100), FromInt(200))},
      {Pair(FromInt(100), Zero), Pair(FromInt(101), FromInt(5))} }

\* CandleVolumeData: the fields the analysis reads.
Candle(timestamp, close, volume) ==
    [timestamp |-> timestamp, close |-> close, volume |-> volume]

\* Filter configurations: the defaults, and the defaults with the trend rule on.
Configs == {DefaultConfig, [DefaultConfig EXCEPT !.require_increasing_volume = TRUE]}

NoScale == Zero

\* backtest_volume before it is called
IdleBacktest ==
    [pc                |-> "idle",
     kucoin_available  |-> TRUE,
     warmup            |-> 0,
     total_entries     |-> 0,
     allowed_entries   |-> 0,
     rejected_entries  |-> 0,
     decisions         |-> <<>>,
     rejection_reasons |-> <<>>,
     printed           |-> <<>>,
     raised            |-> ""]

\* The parts of the state a specification leaves alone.
NoReplay ==
    /\ scale = NoScale
    /\ scaled_analyzer = NewAnalyzer(1, 1)
    /\ scaled_metrics = <<>>

NoFilter == config = DefaultConfig /\ verdict = <<>>

NoProfile == profile = <<>>

NoBacktest == bt = IdleBacktest

NoSymbols == symbols = <<>>

NoStore == store = <<>>

NoSizing == sizing = <<>>

\* The state of the components a specification does not exercise.
Elsewhere == NoSymbols /\ NoStore /\ NoSizing

(***************************************************************************)
(* The analyzer fed candle by candle (analyze_volume's loop)               *)
(***************************************************************************)
Init ==
    /\ inputs \in InputClasses
    /\ candles = <<>>
    /\ \E p \in PeriodChoices : analyzer = NewAnalyzer(p[1], p[2])
    /\ metrics = <<>>
    /\ NoReplay /\ NoFilter /\ NoProfile /\ NoBacktest /\ Elsewhere

PrevEma(metrics_list) ==
    IF metrics_list # <<>> THEN Some(metrics_list[1].volume_ema) ELSE None

\* One pass of the loop: the next candle, with the last volume_ema as prev_ema.
AnalyzeNext(limit, close, volume) ==
    LET ts == Len(analyzer.price_volume_history) + 1
        r  == analyze_candle(analyzer, Candle(ts, close, volume), PrevEma(metrics))
    IN  /\ Len(analyzer.price_volume_history) < limit
        /\ analyzer' = r.self
        /\ metrics' = <<r.metrics>>

Feed ==
    /\ \E c \in inputs : AnalyzeNext(MaxCandles, c.close, c.volume)
    /\ UNCHANGED <<inputs, candles, scale, scaled_analyzer, scaled_metrics,
                   config, verdict, profile, bt, symbols, store, sizing>>

Next == Feed

Spec == Init /\ [][Next]_vars

(***************************************************************************)
(* The scaled replay: one stream fed to an analyzer, and the same stream   *)
(* with every volume multiplied by k fed to a fresh analyzer, in step.     *)
(***************************************************************************)
InitScaled ==
    /\ inputs \in InputClasses
    /\ candles = <<>>
    /\ scale \in Scales
    /\ \E p \in PeriodChoices :
          /\ analyzer = NewAnalyzer(p[1], p[2])
          /\ scaled_analyzer = NewAnalyzer(p[1], p[2])
    /\ metrics = <<>>
    /\ scaled_metrics = <<>>
    /\ NoFilter /\ NoProfile /\ NoBacktest /\ Elsewhere

AnalyzeScaled(close, volume) ==
    LET ts == Len(scaled_analyzer.price_volume_history) + 1
        rk == analyze_candle(scaled_analyzer, Candle(ts, close, FMul(scale, volume)),
                             PrevEma(scaled_metrics))
    IN  /\ scaled_analyzer' = rk.self
        /\ scaled_metrics' = <<rk.metrics>>

FeedScaled ==
    /\ \E c \in inputs :
          /\ AnalyzeNext(MaxScaledCandles, c.close, c.volume)
          /\ AnalyzeScaled(c.close, c.volume)
    /\ UNCHANGED <<inputs, candles, scale, config, verdict, profile, bt, symbols, store, sizing>>

NextScaled == FeedScaled

SpecScaled == InitScaled /\ [][NextScaled]_vars

(***************************************************************************)
(* The scenario: an analyzer with sma_periods = 20 fed twenty candles of   *)
(* one volume and then one candle of a larger volume.                      *)
(***************************************************************************)
ScenarioPeriods == {<<20, 20>>, <<10, 20>>}

Tape(n, base, spike) ==
    [i \in 1..(n + 1) |->
        Candle(i, FromInt(100), IF i <= n THEN FromInt(base) ELSE FromInt(spike))]

ScenarioTapes ==
    {Tape(20, base, spike) : base \in {100, 200}, spike \in {500, 1000}}

InitScenario ==
    /\ inputs = {}
    /\ candles \in ScenarioTapes
    /\ \E p \in ScenarioPeriods : analyzer = NewAnalyzer(p[1], p[2])
    /\ metrics = <<>>
    /\ NoReplay /\ NoFilter /\ NoProfile /\ NoBacktest /\ Elsewhere

FeedTape ==
    /\ Len(analyzer.price_volume_history) < Len(candles)
    /\ LET c == candles[Len(analyzer.price_volume_history) + 1]
       IN  AnalyzeNext(Len(candles), c.close, c.volume)
    /\ UNCHANGED <<inputs, candles, scale, scaled_analyzer, scaled_metrics,
                   config, verdict, profile, bt, symbols, store, sizing>>

NextScenario == FeedTape

SpecScenario == InitScenario /\ [][NextScenario]_vars

(***************************************************************************)
(* The profile calculator on candle lists of every length up to            *)
(* MaxProfileCandles.                                                      *)
(***************************************************************************)
InitProfile ==
    /\ inputs \in InputClasses
    /\ candles = <<>>
    /\ analyzer = NewAnalyzer(5, 5)
    /\ metrics = <<>>
    /\ profile = <<>>
    /\ NoReplay /\ NoFilter /\ NoBacktest /\ Elsewhere

\* The candle source delivers one more candle, twelve hours after the last.
FetchCandle ==
    /\ profile = <<>>
    /\ Len(candles) < MaxProfileCandles
    /\ \E c \in inputs :
          candles' = Append(candles, Candle(Len(candles) * 43200, c.close, c.volume))
    /\ UNCHANGED <<inputs, analyzer, metrics, scale, scaled_analyzer, scaled_metrics,
                   config, verdict, profile, bt, symbols, store, sizing>>

CalculateProfile ==
    /\ profile = <<>>
    /\ profile' = <<calculate_profile(candles)>>
    /\ UNCHANGED <<inputs, candles, analyzer, metrics, scale, scaled_analyzer,
                   scaled_metrics, config, verdict, bt, symbols, store, sizing>>

NextProfile == FetchCandle \/ CalculateProfile

SpecProfile == InitProfile /\ [][NextProfile]_vars

(***************************************************************************)
(* The filter called on metrics snapshots while an analyzer advances.      *)
(***************************************************************************)
SyntheticMetrics(ratio, z, trend, vwap) ==
    [timestamp    |-> 0,
     volume       |-> FromInt(100),
     volume_sma   |-> FromInt(100),
     volume_ema   |-> FromInt(100),
     vwap         |-> vwap,
     volume_ratio |-> ratio,
     z_score      |-> z,
     trend        |-> trend,
     anomaly      |-> anomaly_of(z).anomaly,
     anomaly_type |-> anomaly_of(z).anomaly_type]

FilterMetrics ==
    {SyntheticMetrics(ratio, z, trend, vwap) :
        ratio \in {Lit(1, 4), FromInt(1), FromInt(4)},
        z     \in {FromInt(-3), Zero, FromInt(3)},
        trend \in {"increasing", "stable"},
        vwap  \in {Zero, FromInt(100)}}

FilterPrices == {FromInt(100), FromInt(101)}

InitFilter ==
    /\ inputs \in InputClasses
    /\ candles = <<>>
    /\ analyzer = NewAnalyzer(2, 3)
    /\ metrics = <<>>
    /\ config \in Configs
    /\ verdict = <<>>
    /\ NoReplay /\ NoProfile /\ NoBacktest /\ Elsewhere

FilterFeed ==
    /\ \E c \in inputs : AnalyzeNext(MaxFilterCandles, c.close, c.volume)
    /\ UNCHANGED <<inputs, candles, scale, scaled_analyzer, scaled_metrics,
                   config, verdict, profile, bt, symbols, store, sizing>>

\* volume_filter.should_allow_entry(m, price)
ShouldAllowEntry(m, price) ==
    /\ verdict' = <<[config  |-> config,
                     metrics |-> m,
                     price   |-> price,
                     result  |-> should_allow_entry(config, m, price)]>>
    /\ UNCHANGED <<inputs, candles, analyzer, metrics, scale, scaled_analyzer,
                   scaled_metrics, config, profile, bt, symbols, store, sizing>>

FilterSynthetic == \E m \in FilterMetrics, price \in FilterPrices : ShouldAllowEntry(m, price)

FilterAnalyzed ==
    /\ metrics # <<>>
    /\ \E price \in FilterPrices : ShouldAllowEntry(metrics[1], price)

NextFilter == FilterFeed \/ FilterSynthetic \/ FilterAnalyzed

SpecFilter == InitFilter /\ [][NextFilter]_vars

(***************************************************************************)
(* backtest_volume                                                         *)
(***************************************************************************)
\* Candle lists of up to n candles drawn from a class, one hour apart.
CandleLists(class, n) ==
    UNION {{[i \in 1..k |-> Candle(i * 3600, f[i].close, f[i].volume)] :
               f \in [1..k -> class]} : k \in 0..n}

InitBacktest ==
    /\ inputs \in InputClasses
    /\ candles \in CandleLists(inputs, MaxBacktestCandles)
    /\ \E p \in PeriodChoices : analyzer = NewAnalyzer(p[1], p[2])
    /\ metrics = <<>>
    /\ config \in Configs
    /\ verdict = <<>>
    /\ \E w \in 0..MaxWarmup, k \in BOOLEAN :
          bt = [IdleBacktest EXCEPT !.pc = "start", !.warmup = w, !.kucoin_available = k]
    /\ NoReplay /\ NoProfile /\ Elsewhere

\* candles[args.warmup:]
Evaluated == DropN(candles, Min(bt.warmup, Len(candles)))

\* Lines 799-829: the early returns, then the analyzer, the filter and the
\* counters.
BtStart ==
    /\ bt.pc = "start"
    /\ IF ~bt.kucoin_available
       THEN /\ bt' = [bt EXCEPT !.pc = "done",
                                !.printed = <<"ERROR: kucoin-python not installed">>]
            /\ UNCHANGED analyzer
       ELSE IF candles = <<>>
       THEN /\ bt' = [bt EXCEPT !.pc = "done", !.printed = <<"No volume data found">>]
            /\ UNCHANGED analyzer
       ELSE /\ bt' = [bt EXCEPT !.pc = "loop"]
            /\ analyzer' = NewAnalyzer(analyzer.sma_periods, analyzer.ema_periods)
    /\ UNCHANGED <<inputs, candles, metrics, scale, scaled_analyzer, scaled_metrics,
                   config, verdict, profile, symbols, store, sizing>>

\* Lines 831-841: one pass of the loop over candles[args.warmup:].
BtLoop ==
    /\ bt.pc = "loop"
    /\ Len(bt.decisions) < Len(Evaluated)
    /\ LET candle   == Evaluated[Len(bt.decisions) + 1]
           prev_ema == IF bt.decisions # <<>>
                       THEN Some(bt.decisions[Len(bt.decisions)].metrics.volume_ema)
                       ELSE None
           r        == analyze_candle(analyzer, candle, prev_ema)
           decision == make_decision(config, candle, r.metrics, "BTC")
       IN  /\ analyzer' = r.self
           /\ metrics' = <<r.metrics>>
           /\ bt' = [bt EXCEPT
                       !.decisions = Append(@, decision),
                       !.total_entries = @ + 1,
                       !.allowed_entries =
                           IF decision.decision = "allow" THEN @ + 1 ELSE @,
                       !.rejected_entries =
                           IF decision.decision = "allow" THEN @ ELSE @ + 1]
    /\ UNCHANGED <<inputs, candles, scale, scaled_analyzer, scaled_metrics,
                   config, verdict, profile, symbols, store, sizing>>

\* entries / total_entries * 100
Percent(entries, total) == FMul(FDiv(FromInt(entries), FromInt(total)), FromInt(100))

\* Lines 843-868: the report of the totals; the percentages divide by
\* total_entries, and a division by zero raises ZeroDivisionError.
BtReport ==
    /\ bt.pc = "loop"
    /\ Len(bt.decisions) = Len(Evaluated)
    /\ IF bt.total_entries = 0
       THEN bt' = [bt EXCEPT !.pc = "raised", !.raised = "ZeroDivisionError",
                             !.printed = <<"Total Entries", 0>>]
       ELSE bt' = [bt EXCEPT
                     !.pc = "breakdown",
                     !.printed = <<"Total Entries", bt.total_entries,
                                   "Allowed Entries", bt.allowed_entries,
                                   Percent(bt.allowed_entries, bt.total_entries),
                                   "Rejected Entries", bt.rejected_entries,
                                   Percent(bt.rejected_entries, bt.total_entries)>>]
    /\ UNCHANGED <<inputs, candles, analyzer, metrics, scale, scaled_analyzer,
                   scaled_metrics, config, verdict, profile, symbols, store, sizing>>

\* The breakdown with rejection_reasons.get(reason, 1): every count one too high.
RejectionReasons_from_one(decisions) ==
    LET keys == {decisions[i].decision : i \in 1..Len(decisions)} \ {"allow"}
    IN  [k \in keys |->
            Cardinality({i \in 1..Len(decisions) : decisions[i].decision = k}) + 1]

\* rejection_reasons: the number of decisions of each category other than allow
RejectionReasons(decisions) ==
    LET keys == {decisions[i].decision : i \in 1..Len(decisions)} \ {"allow"}
    IN  [k \in keys |-> Cardinality({i \in 1..Len(decisions) : decisions[i].decision = k})]

\* Lines 870-883: the rejection breakdown, each count as a percentage of
\* rejected_entries.
BtBreakdown ==
    /\ bt.pc = "breakdown"
    /\ LET reasons == RejectionReasons(bt.decisions)
       IN  bt' = [bt EXCEPT
                    !.pc = "done",
                    !.rejection_reasons =
                        [k \in DOMAIN reasons |->
                            <<reasons[k], Percent(reasons[k], bt.rejected_entries)>>]]
    /\ UNCHANGED <<inputs, candles, analyzer, metrics, scale, scaled_analyzer,
                   scaled_metrics, config, verdict, profile, symbols, store, sizing>>

NextBacktest == BtStart \/ BtLoop \/ BtReport \/ BtBreakdown

SpecBacktest == InitBacktest /\ [][NextBacktest]_vars

(***************************************************************************)
(* Properties of the analyzer                                              *)
(***************************************************************************)
Analyzed == metrics # <<>>

M == metrics[1]

Window == analyzer.volume_history

\* The (close, volume) pairs the last VWAP was computed over.
VwapPairs == LastN(analyzer.price_volume_history, VwapWindow)

\* C3: a metrics snapshot produced while the window holds fewer than 10
\* volume samples has z_score = 0 and anomaly = False.
C3_ZScoreZeroBelowTen ==
    (Analyzed /\ Len(Window) < 10) => (M.z_score = Zero /\ M.anomaly = FALSE)

\* C3 witness: nine samples, not all equal, and the snapshot has z_score 0.
C3_Witness ==
    /\ Analyzed
    /\ Len(Window) = 9
    /\ \E i \in 1..9 : Window[i] # Window[9]
    /\ M.z_score = Zero
    /\ M.anomaly = FALSE

\* C4: a metrics snapshot produced while the window holds fewer than 5
\* volume samples has trend = stable.
C4_TrendStableBelowFive ==
    (Analyzed /\ Len(Window) < 5) => M.trend = "stable"

\* C4 witness: four samples that rise from the first to the last, trend stable.
C4_Witness ==
    /\ Analyzed
    /\ Len(Window) = 4
    /\ FLt(Window[1], Window[4])
    /\ M.trend = "stable"

\* Every pair of the VWAP window has the price of the last candle and a
\* positive volume.
SamePriceWindow ==
    /\ Analyzed
    /\ \A i \in 1..Len(VwapPairs) :
          /\ VwapPairs[i][1] = VwapPairs[Len(VwapPairs)][1]
          /\ FGt(VwapPairs[i][2], Zero)

WindowPrice == VwapPairs[Len(VwapPairs)][1]

\* m * 2^e needs no rounding.
Representable(m, e) == BitLen(Abs(Norm(m, e)[1])) <= MantBits

ExactMul(a, b) == Representable(a[1] * b[1], a[2] + b[2])

ExactAdd(a, b) ==
    LET e == Min(a[2], b[2])
    IN  Representable(a[1] * Pow2(a[2] - e) + b[1] * Pow2(b[2] - e), e)

\* Every partial sum of sum(values) is exact.
ExactSum(values) ==
    \A n \in 1..Len(values) : ExactAdd(FSumTo(values, n - 1), values[n])

\* No product and no partial sum of the last VWAP computation was rounded.
VwapExactInputs ==
    /\ \A i \in 1..Len(VwapPairs) : ExactMul(VwapPairs[i][1], VwapPairs[i][2])
    /\ ExactSum([i \in 1..Len(VwapPairs) |-> FMul(VwapPairs[i][1], VwapPairs[i][2])])
    /\ ExactSum([i \in 1..Len(VwapPairs) |-> VwapPairs[i][2]])

\* |a - b| * (2^MantBits - k) <= k * |b|: a is b within k roundings.
WithinRoundings(a, b, k) ==
    LET e  == Min(a[2], b[2])
        xa == a[1] * Pow2(a[2] - e)
        xb == b[1] * Pow2(b[2] - e)
    IN  Abs(xa - xb) * (Pow2(MantBits) - k) <= k * Abs(xb)

\* C7 as stated: over a window of pairs sharing one price p, with positive
\* volumes, the VWAP equals p exactly.
C7_VwapExactlyP == SamePriceWindow => M.vwap = WindowPrice

\* C7 amended: over a window of N pairs sharing one price p, with positive
\* volumes, the VWAP equals p exactly when no product price * volume and no
\* partial sum was rounded, and is p within 2N roundings otherwise.
C7_VwapPWhenExact ==
    SamePriceWindow =>
        /\ VwapExactInputs => M.vwap = WindowPrice
        /\ WithinRoundings(M.vwap, WindowPrice, 2 * Len(VwapPairs))

\* C7 witness: three pairs of one price, volumes not all equal, nothing rounded.
C7_Witness ==
    /\ SamePriceWindow
    /\ Len(VwapPairs) = 3
    /\ VwapPairs[1][2] # VwapPairs[3][2]
    /\ VwapExactInputs
    /\ M.vwap = WindowPrice

(***************************************************************************)
(* Properties of the scaled replay                                         *)
(***************************************************************************)
BothAnalyzed == metrics # <<>> /\ scaled_metrics # <<>>

\* The number of volumes the last SMA was the mean of.
SmaCount == Min(Len(Window), analyzer.sma_periods)

IsPowerOfTwo(k) == k[1] = 1

\* C8 as stated: at every step the scaled stream yields the volume_ratio of
\* the unscaled stream, for every k > 0.
C8_RatioScaleInvariant ==
    BothAnalyzed => scaled_metrics[1].volume_ratio = M.volume_ratio

\* C8 amended: at every step the scaled stream yields the same volume_ratio
\* when k is a power of two, and a volume_ratio within 4n + 8 roundings of
\* the unscaled one for any other k > 0 (n volumes in the SMA).
C8_RatioScaleInvariantPow2 ==
    BothAnalyzed =>
        /\ IsPowerOfTwo(scale) => scaled_metrics[1].volume_ratio = M.volume_ratio
        /\ WithinRoundings(scaled_metrics[1].volume_ratio, M.volume_ratio,
                           4 * SmaCount + 8)

\* C8 witness: k a power of two other than 1, three unequal volumes in, the
\* ratio is not the default 1.0 and both replays agree on it.
C8_Witness ==
    /\ BothAnalyzed
    /\ IsPowerOfTwo(scale) /\ scale # FromInt(1)
    /\ Len(Window) = 3
    /\ Window[1] # Window[3]
    /\ M.volume_ratio # FromInt(1)
    /\ scaled_metrics[1].volume_ratio = M.volume_ratio
    /\ scaled_metrics[1].volume # M.volume


(***************************************************************************)
(* Properties of the scenario                                              *)
(***************************************************************************)
History == analyzer.price_volume_history

\* a * den <= num, a >= num / den, exactly.
FLeRat(a, num, den) ==
    IF a[2] >= 0 THEN a[1] * Pow2(a[2]) * den <= num
    ELSE a[1] * den <= num * Pow2(-a[2])

FGeRat(a, num, den) ==
    IF a[2] >= 0 THEN a[1] * Pow2(a[2]) * den >= num
    ELSE a[1] * den >= num * Pow2(-a[2])

\* sma_periods = 20 and the first twenty candles had volume 100.
Twenty100 ==
    /\ Analyzed
    /\ analyzer.sma_periods = 20
    /\ Len(History) >= 20
    /\ \A i \in 1..20 : History[i][2] = FromInt(100)

\* The 21st candle, of volume 500, has just been analysed.
Spike500 == Twenty100 /\ Len(History) = 21 /\ History[21][2] = FromInt(500)

\* C10 as stated: after 20 candles of volume 100 the SMA is 100, and the
\* 21st candle, of volume 500, has a volume_ratio between 4.755 and 4.765.
C10_RatioAbout476 ==
    /\ (Twenty100 /\ Len(History) = 20) => M.volume_sma = FromInt(100)
    /\ Spike500 => (FGeRat(M.volume_ratio, 4755, 1000) /\ FLeRat(M.volume_ratio, 4765, 1000))

\* C10 amended: after 20 candles of volume 100 the SMA is 100, and the 21st
\* candle, of volume 500, has a volume_ratio of 500/120, about 4.17 (between
\* 4.16 and 4.17): its own volume is one of the 20 the SMA averages.
C10_RatioAbout417 ==
    /\ (Twenty100 /\ Len(History) = 20) => M.volume_sma = FromInt(100)
    /\ Spike500 =>
          /\ M.volume_sma = FromInt(120)
          /\ FGeRat(M.volume_ratio, 416, 100)
          /\ FLeRat(M.volume_ratio, 417, 100)

\* C10 witness: the 21st candle analysed, SMA 120 and ratio above 4.16.
C10_Witness ==
    /\ Spike500
    /\ M.volume_sma = FromInt(120)
    /\ FGeRat(M.volume_ratio, 416, 100)

(***************************************************************************)
(* Properties of the profile calculator                                    *)
(***************************************************************************)
Profiled == profile # <<>>

P == profile[1]

\* C5: for every non-empty candle list, p25 <= p50 <= p75 <= p90.
C5_PercentilesOrdered ==
    (Profiled /\ candles # <<>>) =>
        /\ FLe(P.p25_volume, P.p50_volume)
        /\ FLe(P.p50_volume, P.p75_volume)
        /\ FLe(P.p75_volume, P.p90_volume)

\* C5 witness: nine candles (p90 falls back to the largest volume, p25 and
\* p75 are taken by index) whose p25 is below their p75.
C5_Witness ==
    /\ Profiled
    /\ Len(candles) = 9
    /\ FLt(P.p25_volume, P.p75_volume)
    /\ FLe(P.p75_volume, P.p90_volume)

\* C6: the profile of the empty candle list has candle_count 0, period
\* "unknown" and every numeric field 0.
C6_EmptyProfile ==
    (Profiled /\ candles = <<>>) =>
        /\ P.candle_count = 0
        /\ P.period.label = "unknown"
        /\ \A x \in {P.avg_volume, P.median_volume, P.p25_volume, P.p50_volume,
                     P.p75_volume, P.p90_volume, P.std_volume, P.total_volume} :
              x = Zero

\* C6 witness: calculate_profile has returned for the empty list.
C6_Witness == Profiled /\ candles = <<>> /\ P.candle_count = 0


(***************************************************************************)
(* Properties of the filter                                                *)
(***************************************************************************)
Called == verdict # <<>>

V == verdict[1]

\* Rule k of the filter fails for metrics m, price and configuration c.
RuleFails(k, c, m, price) ==
    CASE k = 1 -> FLt(m.volume_ratio, c.min_volume_ratio)
      [] k = 2 -> FGt(m.volume_ratio, c.max_volume_ratio)
      [] k = 3 -> FGt(m.z_score, c.high_volume_zscore)
      [] k = 4 -> FLt(m.z_score, c.low_volume_zscore)
      [] k = 5 -> c.require_increasing_volume /\ m.trend # "increasing"
      [] k = 6 -> /\ FGt(m.vwap, Zero)
                  /\ FGt(VwapDistancePct(m.vwap, price), c.vwap_distance_pct)

FailingRules(c, m, price) == {k \in 1..6 : RuleFails(k, c, m, price)}

FirstFailing(c, m, price) ==
    CHOOSE k \in FailingRules(c, m, price) :
        \A j \in FailingRules(c, m, price) : k <= j

\* The text and the confidence of a rejection by rule k.
RuleText(k) ==
    CASE k = 1 -> TooLowText
      [] k = 2 -> SpikeText
      [] k = 3 -> HighZText
      [] k = 4 -> LowZText
      [] k = 5 -> NoTrendText
      [] k = 6 -> VwapFarText

RuleConfidence(k) ==
    CASE k = 1 -> Lit(3, 10)
      [] k = 2 -> Lit(2, 10)
      [] k = 3 -> Lit(4, 10)
      [] k = 4 -> Lit(3, 10)
      [] k = 5 -> Lit(6, 10)
      [] k = 6 -> Lit(7, 10)

\* C2: when one or several rules fail, the call rejects with the reason and
\* the confidence of the lowest-numbered failing rule.
C2_FirstFailingRuleWins ==
    (Called /\ FailingRules(V.config, V.metrics, V.price) # {}) =>
        LET k == FirstFailing(V.config, V.metrics, V.price)
        IN  /\ V.result.allow = FALSE
            /\ V.result.reason.text = RuleText(k)
            /\ V.result.confidence = RuleConfidence(k)

\* C2 witness: rule 1 (low ratio) and rule 3 (high z-score) fail together
\* and the call returned rule 1's reason and confidence.
C2_Witness ==
    /\ Called
    /\ {1, 3} \subseteq FailingRules(V.config, V.metrics, V.price)
    /\ V.result.reason.text = TooLowText
    /\ V.result.confidence = Lit(3, 10)

BtEnded == bt.pc \in {"done", "raised"}

\* The candle list is empty, or the warmup skips all of it.
NothingToEvaluate == candles = <<>> \/ bt.warmup >= Len(candles)

\* C1: a backtest whose warmup is at least the number of candles, or whose
\* candle list is empty, does not raise: no division by zero, and the totals
\* it ends with are total_entries = allowed_entries = rejected_entries = 0.
C1_NoRaiseWhenNothingToEvaluate ==
    (bt.kucoin_available /\ NothingToEvaluate) =>
        /\ bt.pc # "raised"
        /\ bt.raised = ""
        /\ BtEnded => (bt.total_entries = 0 /\ bt.allowed_entries = 0
                       /\ bt.rejected_entries = 0)

(***************************************************************************)
(* make_decision on the candles of the scenario, as the backtest loop      *)
(* calls it: each candle analysed, then classified.                        *)
(***************************************************************************)
\* The defaults, the trend rule switched on, a ceiling above the spike, and
\* a floor above the ceiling.
DecisionConfigs ==
    Configs \cup {[DefaultConfig EXCEPT !.max_volume_ratio = FromInt(5)],
                  [DefaultConfig EXCEPT !.min_volume_ratio = FromInt(5)]}

InitDecision ==
    /\ inputs = {}
    /\ candles \in ScenarioTapes
    /\ \E p \in ScenarioPeriods : analyzer = NewAnalyzer(p[1], p[2])
    /\ metrics = <<>>
    /\ config \in DecisionConfigs
    /\ verdict = <<>>
    /\ NoReplay /\ NoProfile /\ NoBacktest /\ Elsewhere

\* The decision make_decision returned for the candle analysed last.
Decided == verdict # <<>> /\ metrics # <<>> /\ verdict[1].metrics = metrics[1]

D == verdict[1]

\* metrics = analyzer.analyze_candle(candle, prev_ema)
DecisionFeed ==
    /\ metrics = <<>> \/ Decided
    /\ Len(analyzer.price_volume_history) < Len(candles)
    /\ LET c == candles[Len(analyzer.price_volume_history) + 1]
       IN  AnalyzeNext(Len(candles), c.close, c.volume)
    /\ UNCHANGED <<inputs, candles, scale, scaled_analyzer, scaled_metrics,
                   config, verdict, profile, bt, symbols, store, sizing>>

\* decision = volume_filter.make_decision(candle, metrics, coin)
MakeDecision ==
    /\ metrics # <<>> /\ ~Decided
    /\ LET candle == candles[Len(analyzer.price_volume_history)]
       IN  verdict' = <<make_decision(config, candle, metrics[1], "BTC")>>
    /\ UNCHANGED <<inputs, candles, analyzer, metrics, scale, scaled_analyzer,
                   scaled_metrics, config, profile, bt, symbols, store, sizing>>

NextDecision == DecisionFeed \/ MakeDecision

SpecDecision == InitDecision /\ [][NextDecision]_vars

\* C11: metrics with volume_ratio > max_volume_ratio and volume_ratio >=
\* min_volume_ratio are classified reject_high_volume by make_decision; so is,
\* under the default configuration, the candle of volume 500 analysed after
\* 20 candles of volume 100 with sma_periods = 20.
C11_SpikeRejectedHigh ==
    Decided =>
        /\ (FGt(D.metrics.volume_ratio, config.max_volume_ratio)
            /\ FGe(D.metrics.volume_ratio, config.min_volume_ratio))
               => D.decision = "reject_high_volume"
        /\ (Spike500 /\ config = DefaultConfig) => D.decision = "reject_high_volume"

\* C11 witness: the spike candle of the scenario classified under the
\* default configuration, its ratio between the floor and the ceiling.
C11_Witness ==
    /\ Decided
    /\ Spike500
    /\ config = DefaultConfig
    /\ FGt(D.metrics.volume_ratio, config.max_volume_ratio)
    /\ FGe(D.metrics.volume_ratio, config.min_volume_ratio)
    /\ D.decision = "reject_high_volume"

(***************************************************************************)
(* A candle stream kept beside the analyzer it is fed to: the loop of      *)
(* analyze_volume over the fetched candles, with windows shorter than the  *)
(* stream.                                                                 *)
(***************************************************************************)
StreamPeriods == {<<2, 3>>, <<1, 2>>}

\* Volumes one tenth apart, volumes with zeros, volumes doubling.
StreamClasses ==
    { {Pair(FromInt(100), FromInt(9)), Pair(FromInt(100), FromInt(10)),
       Pair(FromInt(100), FromInt(11))},
      {Pair(FromInt(100), Zero), Pair(FromInt(101), FromInt(5))},
      {Pair(FromInt(100), FromInt(100)), Pair(FromInt(100), FromInt(200))} }

InitStream ==
    /\ inputs \in StreamClasses
    /\ candles = <<>>
    /\ \E p \in StreamPeriods : analyzer = NewAnalyzer(p[1], p[2])
    /\ metrics = <<>>
    /\ NoReplay /\ NoFilter /\ NoProfile /\ NoBacktest /\ Elsewhere

\* for candle in candles: metrics = analyzer.analyze_candle(candle, prev_ema)
FeedStream ==
    /\ \E c \in inputs :
          /\ AnalyzeNext(MaxStreamCandles, c.close, c.volume)
          /\ candles' = Append(candles, Candle(Len(candles) + 1, c.close, c.volume))
    /\ UNCHANGED <<inputs, scale, scaled_analyzer, scaled_metrics,
                   config, verdict, profile, bt, symbols, store, sizing>>

NextStream == FeedStream

SpecStream == InitStream /\ [][NextStream]_vars

(***************************************************************************)
(* Properties of the trend and of the two histories                        *)
(***************************************************************************)
\* The integer a float holds (the volumes of the streams are integers).
IntOf(a) == a[1] * Pow2(a[2])

\* The volumes of the candles fed so far, in arrival order.
Arrived == [i \in 1..Len(candles) |-> candles[i].volume]

\* The five most recent volumes, as integers.
Recent5 == [i \in 1..5 |-> IntOf(LastN(Arrived, 5)[i])]

\* Twice the sum of the first half (two volumes) is four times its mean;
\* the second half has three.
FirstHalfSum == Recent5[1] + Recent5[2]

SecondHalfSum == Recent5[3] + Recent5[4] + Recent5[5]

\* second mean > 1.1 * first mean, second mean < 0.9 * first mean, exactly:
\* S/3 > (11/10)(F/2) iff 20 S > 33 F.
MeanUpTenPct == 20 * SecondHalfSum > 33 * FirstHalfSum

MeanDownTenPct == 20 * SecondHalfSum < 27 * FirstHalfSum

TrendAsStated ==
    IF MeanUpTenPct THEN "increasing"
    ELSE IF MeanDownTenPct THEN "decreasing"
    ELSE "stable"

\* C12 as stated: once the window holds at least 5 samples, the trend is
\* increasing iff the mean of the last three of the 5 most recent volumes
\* exceeds the mean of the first two by more than 10%, decreasing iff it is
\* below by more than 10%, stable otherwise.
C12_TrendFromLastFive ==
    (Analyzed /\ Len(Window) >= 5) => M.trend = TrendAsStated

\* C12 amended: the same, provided the first-half mean is positive; when the
\* first-half mean is 0 the trend is stable whatever the second half holds.
C12_TrendFromLastFivePositive ==
    (Analyzed /\ Len(Window) >= 5) =>
        M.trend = IF FirstHalfSum > 0 THEN TrendAsStated ELSE "stable"

\* C12 witness: six candles fed, the five most recent being 10, 10, 11, 11,
\* 11 (a change of exactly 10%), and the trend computed stable.
C12_Witness ==
    /\ Analyzed
    /\ Len(candles) = 6
    /\ Len(Window) >= 5
    /\ Recent5 = <<10, 10, 11, 11, 11>>
    /\ IntOf(Arrived[1]) = 9
    /\ M.trend = "stable"

\* 2 * max(sma_periods, ema_periods)
Capacity == 2 * Max(analyzer.sma_periods, analyzer.ema_periods)

\* C14: after n analyze_candle calls the volume window holds exactly the last
\* min(n, 2 * max(sma_periods, ema_periods)) volumes in arrival order, the
\* price-volume history holds all n (close, volume) pairs in arrival order,
\* and each call appends one entry to each, leaving every earlier
\* price-volume entry as it was.
C14_WindowsHoldArrivals ==
    /\ [](/\ Len(Window) <= Capacity
          /\ Window = LastN(Arrived, Min(Len(candles), Capacity))
          /\ History = [i \in 1..Len(candles) |->
                           <<candles[i].close, candles[i].volume>>])
    /\ [][analyzer' # analyzer =>
            /\ Len(candles') = Len(candles) + 1
            /\ analyzer'.price_volume_history =
                  Append(History, <<candles'[Len(candles')].close,
                                    candles'[Len(candles')].volume>>)
            /\ analyzer'.volume_history[Len(analyzer'.volume_history)] =
                  candles'[Len(candles')].volume
            /\ Len(analyzer'.volume_history) = Min(Len(Window) + 1, Capacity)]_vars

\* C14 witness: more candles fed than the window holds; the window is full
\* and its oldest entry is not the first arrival's place in the stream.
C14_Witness ==
    /\ Len(candles) > Capacity
    /\ Len(Window) = Capacity
    /\ Len(History) = Len(candles)
    /\ Window = LastN(Arrived, Capacity)
    /\ Window # FirstN(Arrived, Capacity)

(***************************************************************************)
(* Properties of the ratio and of degenerate streams                       *)
(***************************************************************************)
\* C13: with non-negative volumes every metrics snapshot has volume_ratio
\* >= 0, and volume_ratio is volume / SMA when the SMA is positive and 1.0
\* when the SMA is 0.
C13_RatioNonNegative ==
    Analyzed =>
        /\ FGe(M.volume_ratio, Zero)
        /\ M.volume_ratio = IF FGt(M.volume_sma, Zero)
                            THEN FDiv(M.volume, M.volume_sma)
                            ELSE FromInt(1)

\* C13 witness: a candle of volume 0 analysed while the SMA is positive: the
\* ratio is 0.
C13_Witness ==
    /\ Analyzed
    /\ M.volume = Zero
    /\ FGt(M.volume_sma, Zero)
    /\ M.volume_ratio = Zero

\* Every candle fed so far had volume 0.
AllZeroVolumes == \A i \in 1..Len(History) : History[i][2] = Zero

\* C18: while every volume fed is 0, each analyze_candle call returns
\* volume_sma = 0, vwap = 0, volume_ratio = 1.0, z_score = 0, trend = stable
\* and anomaly = False.
C18_ZeroVolumesDefaults ==
    (Analyzed /\ AllZeroVolumes) =>
        /\ M.volume_sma = Zero
        /\ M.vwap = Zero
        /\ M.volume_ratio = FromInt(1)
        /\ M.z_score = Zero
        /\ M.trend = "stable"
        /\ ~M.anomaly

\* C18 witness: ten candles of volume 0 analysed, the window holding all ten
\* (the z-score and the trend are computed, not defaulted by length).
C18_Witness ==
    /\ Analyzed
    /\ AllZeroVolumes
    /\ Len(History) = 10
    /\ Len(Window) >= ZScoreMinSamples
    /\ M.volume_ratio = FromInt(1)
    /\ M.vwap = Zero

(***************************************************************************)
(* Properties of the backtest's counters                                   *)
(***************************************************************************)
\* The decision categories other than allow.
RejectCategories == {"reject_low_volume", "reject_high_volume", "reject_no_trend", "reject"}

\* The count the breakdown holds for a category, 0 when it has none.
BreakdownCount(k) ==
    IF k \in DOMAIN bt.rejection_reasons THEN bt.rejection_reasons[k][1] ELSE 0

BreakdownTotal ==
    BreakdownCount("reject_low_volume") + BreakdownCount("reject_high_volume")
        + BreakdownCount("reject_no_trend") + BreakdownCount("reject")

\* The loop over candles[warmup:] has started.
BtLooping == bt.pc \in {"loop", "breakdown", "raised"} \/ (bt.pc = "done" /\ bt.printed # <<>>
                                                          /\ bt.kucoin_available /\ candles # <<>>)

\* The loop has ended.
BtLooped == BtLooping /\ bt.pc # "loop"

\* C15: after every pass of the backtest loop and at the end of the run,
\* total_entries = allowed_entries + rejected_entries; once the loop has
\* ended total_entries is the number of candles left after skipping the
\* first warmup candles; and the counts of the rejection breakdown sum to
\* rejected_entries, under keys that are decision categories other than allow.
C15_CountersAddUp ==
    /\ bt.total_entries = bt.allowed_entries + bt.rejected_entries
    /\ BtLooping => bt.total_entries = Len(bt.decisions)
    /\ BtLooped => bt.total_entries = Max(Len(candles) - bt.warmup, 0)
    /\ bt.pc = "done" =>
          /\ DOMAIN bt.rejection_reasons \subseteq RejectCategories
          /\ BtLooped => BreakdownTotal = bt.rejected_entries
          /\ \A k \in DOMAIN bt.rejection_reasons : bt.rejection_reasons[k][1] > 0

\* C15 witness: a run with a warmup, ended with an allowed and a rejected
\* entry and a breakdown of one key.
C15_Witness ==
    /\ bt.pc = "done"
    /\ bt.warmup >= 1
    /\ bt.allowed_entries >= 1
    /\ bt.rejected_entries >= 1
    /\ bt.total_entries = Len(candles) - bt.warmup
    /\ BreakdownTotal = bt.rejected_entries
    /\ DOMAIN bt.rejection_reasons # {}

(***************************************************************************)
(* Properties of the confidence                                            *)
(***************************************************************************)
\* The rule whose text a rejection's reason carries.
RuleOfReason(reason) == CHOOSE k \in 1..6 : RuleText(k) = reason.text

\* C20: the confidence should_allow_entry returns lies in [0, 1]; a
\* rejection by rule 1, 2, 3, 4, 5 or 6 carries 0.3, 0.2, 0.4, 0.3, 0.6 or
\* 0.7; an allow carries 1.0, whether or not vwap > 0 (the factor 1.2 of
\* rule 6 is capped).
C20_ConfidenceByOutcome ==
    Called =>
        /\ FGe(V.result.confidence, Zero)
        /\ FLe(V.result.confidence, FromInt(1))
        /\ V.result.allow => /\ V.result.confidence = FromInt(1)
                             /\ V.result.reason.text = ConfirmsText
        /\ ~V.result.allow =>
              /\ \E k \in 1..6 : RuleText(k) = V.result.reason.text
              /\ V.result.confidence =
                    <<Lit(3, 10), Lit(2, 10), Lit(4, 10), Lit(3, 10), Lit(6, 10),
                      Lit(7, 10)>>[RuleOfReason(V.result.reason)]

\* C20 witness: an allow for metrics with vwap > 0 (the confidence went
\* through 1.2) returning 1.0.
C20_Witness ==
    /\ Called
    /\ V.result.allow
    /\ FGt(V.metrics.vwap, Zero)
    /\ FLe(VwapDistancePct(V.metrics.vwap, V.price), V.config.vwap_distance_pct)
    /\ V.result.confidence = FromInt(1)

(***************************************************************************)
(* Two symbols advancing side by side.  Each symbol's candles go to the    *)
(* analyzer instance kept for that symbol, in any interleaving with the    *)
(* other symbol's; beside them runs one instance that is fed the candles   *)
(* of both, to compare.                                                    *)
(***************************************************************************)
SymbolNames == {"BTC", "ETH"}

OtherSymbol(sym) == IF sym = "BTC" THEN "ETH" ELSE "BTC"

\* What a symbol's candles may be: the two symbols trade at different prices
\* and volumes.
SymbolClass(sym) ==
    IF sym = "BTC"
    THEN {Pair(FromInt(100), FromInt(100)), Pair(FromInt(100), FromInt(200))}
    ELSE {Pair(Lit(1, 10), FromInt(1)), Pair(Lit(1, 10), FromInt(3))}

\* The candle streams of length n over a class.
StreamsOf(class, n) ==
    {[i \in 1..n |-> Candle(i, f[i].close, f[i].volume)] : f \in [1..n -> class]}

\* prev_ema as the callers pass it: the volume_ema of the last metrics.
LastEma(metrics_list) ==
    IF metrics_list # <<>> THEN Some(metrics_list[Len(metrics_list)].volume_ema)
    ELSE None

\* Every symbol's candles fed to the one shared instance.
instance_for_shared(sym, own, shared) == shared

\* The instance a symbol's candle is fed to: the symbol's own.
instance_for(sym, own, shared) == own[sym]

InitSymbols ==
    /\ inputs = {}
    /\ candles = <<>>
    /\ analyzer = NewAnalyzer(2, 3)
    /\ metrics = <<>>
    /\ \E btc \in StreamsOf(SymbolClass("BTC"), MaxSymbolCandles),
          eth \in StreamsOf(SymbolClass("ETH"), MaxSymbolCandles) :
          symbols = [streams        |-> [s \in SymbolNames |->
                                            IF s = "BTC" THEN btc ELSE eth],
                     fed            |-> [s \in SymbolNames |-> 0],
                     own            |-> [s \in SymbolNames |-> NewAnalyzer(2, 3)],
                     own_metrics    |-> [s \in SymbolNames |-> <<>>],
                     shared         |-> NewAnalyzer(2, 3),
                     shared_metrics |-> [s \in SymbolNames |-> <<>>],
                     others_before  |-> [s \in SymbolNames |-> <<>>]]
    /\ NoReplay /\ NoFilter /\ NoProfile /\ NoBacktest /\ NoStore /\ NoSizing

\* The next candle of sym is analysed: by the symbol's instance, and by the
\* shared one (others_before notes how many candles of the other symbol the
\* shared instance had taken by then).
FeedSymbol(sym) ==
    /\ symbols.fed[sym] < Len(symbols.streams[sym])
    /\ LET c == symbols.streams[sym][symbols.fed[sym] + 1]
           r == analyze_candle(instance_for(sym, symbols.own, symbols.shared), c,
                               LastEma(symbols.own_metrics[sym]))
           q == analyze_candle(symbols.shared, c, LastEma(symbols.shared_metrics[sym]))
       IN  symbols' = [symbols EXCEPT
                         !.fed[sym] = @ + 1,
                         !.own[sym] = r.self,
                         !.own_metrics[sym] = Append(@, r.metrics),
                         !.shared = q.self,
                         !.shared_metrics[sym] = Append(@, q.metrics),
                         !.others_before[sym] =
                             Append(@, symbols.fed[OtherSymbol(sym)])]
    /\ UNCHANGED <<inputs, candles, analyzer, metrics, scale, scaled_analyzer,
                   scaled_metrics, config, verdict, profile, bt, store, sizing>>

FeedBTC == FeedSymbol("BTC")

FeedETH == FeedSymbol("ETH")

NextSymbols == FeedBTC \/ FeedETH

SpecSymbols == InitSymbols /\ [][NextSymbols]_vars

(***************************************************************************)
(* Properties of per-symbol instances                                      *)
(***************************************************************************)
\* The metrics of the first n candles of a stream run alone on a fresh
\* instance.
RECURSIVE Alone(_, _)
Alone(stream, n) ==
    IF n = 0 THEN [self |-> NewAnalyzer(2, 3), list |-> <<>>]
    ELSE LET before == Alone(stream, n - 1)
             r      == analyze_candle(before.self, stream[n], LastEma(before.list))
         IN  [self |-> r.self, list |-> Append(before.list, r.metrics)]

\* C19: with one instance per symbol, the metrics of a symbol's candles are,
\* in every interleaving of the two symbols' calls, those of the symbol run
\* alone; the instance fed both streams returns other metrics for every
\* candle it takes after a candle of the other symbol.
C19_PerSymbolIsolation ==
    \A sym \in SymbolNames :
        /\ symbols.own_metrics[sym] = Alone(symbols.streams[sym], symbols.fed[sym]).list
        /\ \A i \in 1..Len(symbols.shared_metrics[sym]) :
              (symbols.shared_metrics[sym][i] = symbols.own_metrics[sym][i])
                  <=> (symbols.others_before[sym][i] = 0)

\* C19 witness: both streams fed to the end, BTC's last candle after ETH's
\* first; BTC's own metrics are those of BTC alone and the shared instance
\* returned another SMA for that candle.
C19_Witness ==
    /\ \A sym \in SymbolNames : symbols.fed[sym] = MaxSymbolCandles
    /\ symbols.others_before["BTC"][MaxSymbolCandles] > 0
    /\ symbols.others_before["ETH"][1] > 0
    /\ symbols.own_metrics["BTC"] = Alone(symbols.streams["BTC"], MaxSymbolCandles).list
    /\ symbols.shared_metrics["BTC"][MaxSymbolCandles].volume_sma
          # symbols.own_metrics["BTC"][MaxSymbolCandles].volume_sma

(***************************************************************************)
(* VolumeDecisionLogger: the volume_decisions table, log_decision and      *)
(* get_decisions.                                                          *)
(*                                                                         *)
(* A cell of the table is a value with its Python type where the code      *)
(* depends on it: the connection is opened with PARSE_DECLTYPES, so a      *)
(* datetime is written as ISO text by sqlite3's adapter and a column       *)
(* declared TIMESTAMP is read back as a datetime by sqlite3's converter.   *)
(***************************************************************************)
Str(value) == [type |-> "str", value |-> value]

Datetime(value) == [type |-> "datetime", value |-> value]

\* sqlite3's adapter for datetime: the ISO text of the moment.
adapt_datetime(dt) == Str(dt.value)

\* sqlite3's converter for columns declared TIMESTAMP.
convert_timestamp(cell) == Datetime(cell.value)

\* datetime.fromisoformat(x): a datetime for a str, TypeError for anything else.
fromisoformat(x) == IF x.type = "str" THEN Some(Datetime(x.value)) ELSE None

\* x or default, for a float x: the default replaces 0.0 (and NULL).
OrFloat(x, default) == IF x = Zero \/ x = None THEN default ELSE x

\* x or default, for a str x.
OrStr(x, default) == IF x = "" THEN default ELSE x

\* A VolumeDecision: make_decision's result with its timestamp.
StoredDecision(timestamp, d) ==
    [timestamp  |-> Datetime(timestamp),
     coin       |-> d.coin,
     price      |-> d.price,
     volume     |-> d.volume,
     metrics    |-> d.metrics,
     decision   |-> d.decision,
     reason     |-> d.reason,
     confidence |-> d.confidence]

\* The row log_decision inserts for a decision, under the next id.
row_of(id, decision) ==
    [id           |-> id,
     timestamp    |-> adapt_datetime(decision.timestamp),
     coin         |-> decision.coin,
     price        |-> decision.price,
     volume       |-> decision.volume,
     volume_sma   |-> decision.metrics.volume_sma,
     volume_ema   |-> decision.metrics.volume_ema,
     vwap         |-> decision.metrics.vwap,
     volume_ratio |-> decision.metrics.volume_ratio,
     z_score      |-> decision.metrics.z_score,
     trend        |-> decision.metrics.trend,
     anomaly      |-> IF decision.metrics.anomaly THEN 1 ELSE 0,
     anomaly_type |-> decision.metrics.anomaly_type,
     decision     |-> decision.decision,
     reason       |-> decision.reason,
     confidence   |-> decision.confidence]

\* A row as the cursor hands it over: the TIMESTAMP column converted.
fetched(row) == [row EXCEPT !.timestamp = convert_timestamp(@)]

\* The VolumeDecision get_decisions builds from a fetched row r; None when
\* building it raises TypeError.
decision_of_row(r) ==
    LET parsed == fromisoformat(r.timestamp)
    IN  IF parsed = None THEN None
        ELSE Some([timestamp  |-> parsed[1],
                   coin       |-> r.coin,
                   price      |-> r.price,
                   volume     |-> r.volume,
                   metrics    |->
                       [timestamp    |-> parsed[1].value,
                        volume       |-> r.volume,
                        volume_sma   |-> OrFloat(r.volume_sma, Zero),
                        volume_ema   |-> OrFloat(r.volume_ema, Zero),
                        vwap         |-> OrFloat(r.vwap, Zero),
                        volume_ratio |-> OrFloat(r.volume_ratio, FromInt(1)),
                        z_score      |-> OrFloat(r.z_score, Zero),
                        trend        |-> OrStr(r.trend, "stable"),
                        anomaly      |-> r.anomaly # 0,
                        anomaly_type |-> OrStr(r.anomaly_type, "")],
                   decision   |-> r.decision,
                   reason     |-> r.reason,
                   confidence |-> OrFloat(r.confidence, Zero)])

\* The orders in which SELECT ... WHERE coin = ? ORDER BY timestamp DESC
\* LIMIT ? may return the table's rows: the matching rows by non-increasing
\* timestamp, rows of one timestamp in any order, cut at the limit.
Selections(rows, coin, limit) ==
    LET matching == {i \in 1..Len(rows) : coin = "" \/ rows[i].coin = coin}
        n        == Cardinality(matching)
        orders   == {f \in [1..n -> matching] :
                        /\ \A i, j \in 1..n : i # j => f[i] # f[j]
                        /\ \A i \in 1..(n - 1) :
                              rows[f[i]].timestamp.value >= rows[f[i + 1]].timestamp.value}
    IN  {[i \in 1..Min(n, limit) |-> rows[f[i]]] : f \in orders}

\* The logger on a fresh database.
EmptyStore ==
    [rows    |-> <<>>,
     logged  |-> <<>>,
     call    |-> "none",
     query   |-> [coin |-> "", limit |-> 0],
     result  |-> <<>>,
     raised  |-> ""]

\* The decisions handed to log_decision: decided at moment 1 or 2, for either
\* coin, on metrics whose volume_ratio is 0 or 1.
StoreDecisions ==
    {StoredDecision(t, make_decision(DefaultConfig,
                                     Candle(0, FromInt(100), FromInt(100)),
                                     SyntheticMetrics(ratio, Zero, "stable", FromInt(100)),
                                     coin)) :
        t \in 1..2, coin \in SymbolNames, ratio \in {Zero, FromInt(1)}}

\* get_decisions' arguments: no coin or a coin, and a limit.
QueryCoins == {""} \cup SymbolNames

QueryLimits == 0..2

InitStore ==
    /\ inputs = {}
    /\ candles = <<>>
    /\ analyzer = NewAnalyzer(2, 3)
    /\ metrics = <<>>
    /\ store = EmptyStore
    /\ NoReplay /\ NoFilter /\ NoProfile /\ NoBacktest /\ NoSymbols /\ NoSizing

\* log_decision(decision): one INSERT, committed; returns cursor.lastrowid.
LogDecision ==
    /\ Len(store.rows) < MaxStoreRows
    /\ \E decision \in StoreDecisions :
          store' = [store EXCEPT
                      !.rows   = Append(@, row_of(Len(store.rows) + 1, decision)),
                      !.logged = Append(@, decision),
                      !.call   = "log_decision",
                      !.result = <<Len(store.rows) + 1>>,
                      !.raised = ""]
    /\ UNCHANGED <<inputs, candles, analyzer, metrics, scale, scaled_analyzer,
                   scaled_metrics, config, verdict, profile, bt, symbols, sizing>>

\* get_decisions(coin, limit): the SELECT, then one VolumeDecision per row.
GetDecisions ==
    /\ \E coin \in QueryCoins, limit \in QueryLimits :
          \E selection \in Selections(store.rows, coin, limit) :
              LET built == [i \in 1..Len(selection) |->
                               decision_of_row(fetched(selection[i]))]
              IN  store' = [store EXCEPT
                              !.call   = "get_decisions",
                              !.query  = [coin |-> coin, limit |-> limit],
                              !.result =
                                  IF \E i \in 1..Len(built) : built[i] = None
                                  THEN <<>>
                                  ELSE [i \in 1..Len(built) |-> built[i][1]],
                              !.raised =
                                  IF \E i \in 1..Len(built) : built[i] = None
                                  THEN "TypeError" ELSE ""]
    /\ UNCHANGED <<inputs, candles, analyzer, metrics, scale, scaled_analyzer,
                   scaled_metrics, config, verdict, profile, bt, symbols, sizing>>

NextStore == LogDecision \/ GetDecisions

SpecStore == InitStore /\ [][NextStore]_vars

(***************************************************************************)
(* Properties of the decision store                                        *)
(***************************************************************************)
\* get_decisions was the last call.
Queried == store.call = "get_decisions"

\* The logged decisions the last query asks for.
Asked == {i \in 1..Len(store.logged) :
             store.query.coin = "" \/ store.logged[i].coin = store.query.coin}

\* C16: every persisted decision stays stored unchanged and each
\* log_decision returns a fresh id; get_decisions(coin, limit) returns at
\* most limit decisions, those of the coin when one is given, by
\* non-increasing timestamp, the most recent ones.
C16_StoreAppendOnlyOrdered ==
    /\ [](Queried =>
            /\ store.raised = ""
            /\ Len(store.result) = Min(Cardinality(Asked), store.query.limit)
            /\ \A i \in 1..Len(store.result) :
                  /\ store.query.coin # "" => store.result[i].coin = store.query.coin
                  /\ i > 1 => store.result[i - 1].timestamp.value
                                 >= store.result[i].timestamp.value
                  /\ Cardinality({j \in Asked : store.logged[j].timestamp.value
                                                   > store.result[i].timestamp.value}) < i)
    /\ [][/\ Len(store'.rows) >= Len(store.rows)
          /\ SubSeq(store'.rows, 1, Len(store.rows)) = store.rows
          /\ store'.call = "log_decision" =>
                \A i \in 1..Len(store.rows) : store.rows[i].id # store'.result[1]]_vars

\* C17: the decisions get_decisions returns for logged decisions carry the
\* metrics that were logged, field for field.
C17_RoundTripRetainsMetrics ==
    (Queried /\ Asked # {} /\ store.query.limit > 0) =>
        /\ store.raised = ""
        /\ store.result # <<>>
        /\ \A i \in 1..Len(store.result) :
              \E j \in Asked : store.result[i].metrics = store.logged[j].metrics

(***************************************************************************)
(* Properties of the VWAP rule                                             *)
(***************************************************************************)
\* Rules 1 to 5 pass for the recorded call.
RulesOneToFivePass == \A k \in 1..5 : ~RuleFails(k, V.config, V.metrics, V.price)

\* |price - vwap| / vwap * unit > limit in exact arithmetic, for vwap > 0:
\* the floats m * 2^e are brought to integers over common exponents.
DistanceExceeds(price, vwap, limit, unit) ==
    LET low == Min(price[2], vwap[2])
        p   == price[1] * Pow2(price[2] - low)
        v   == vwap[1] * Pow2(vwap[2] - low)
        gap == Abs(p - v) * unit
    IN  IF limit[2] >= 0 THEN gap > limit[1] * Pow2(limit[2]) * v
        ELSE gap * Pow2(-limit[2]) > limit[1] * v

\* The distance as a percentage of the VWAP exceeds the limit.
ExceedsPct(price, vwap, limit) == DistanceExceeds(price, vwap, limit, 100)

\* The distance as a fraction of the VWAP exceeds the limit.
ExceedsFraction(price, vwap, limit) == DistanceExceeds(price, vwap, limit, 1)

\* C21 (as stated): when rules 1 to 5 pass, should_allow_entry rejects by
\* rule 6 exactly when vwap > 0 and the distance |price - vwap| / vwap
\* exceeds vwap_distance_pct; a vwap that is not positive skips the rule.
C21_VwapRuleFraction ==
    (Called /\ RulesOneToFivePass) =>
        /\ ~V.result.allow <=>
              (FGt(V.metrics.vwap, Zero)
               /\ ExceedsFraction(V.price, V.metrics.vwap,
                                  V.config.vwap_distance_pct))
        /\ ~FGt(V.metrics.vwap, Zero) => V.result.allow

\* C21 (amended): when rules 1 to 5 pass, should_allow_entry rejects (by
\* rule 6, the price too far from the VWAP) exactly when vwap > 0 and the
\* distance |price - vwap| / vwap * 100, a percentage, exceeds
\* vwap_distance_pct; when vwap is not positive the rule is skipped and the
\* entry is allowed.
C21_VwapRule ==
    (Called /\ RulesOneToFivePass) =>
        /\ ~V.result.allow <=>
              (FGt(V.metrics.vwap, Zero)
               /\ ExceedsPct(V.price, V.metrics.vwap, V.config.vwap_distance_pct))
        /\ ~V.result.allow => V.result.reason.text = VwapFarText
        /\ ~FGt(V.metrics.vwap, Zero) => V.result.allow

\* C21 witness: rules 1 to 5 pass and the price is more than the limit, as a
\* percentage, but less than the limit, as a fraction, off a positive VWAP:
\* rejected by rule 6.
C21_Witness ==
    /\ Called
    /\ RulesOneToFivePass
    /\ FGt(V.metrics.vwap, Zero)
    /\ ExceedsPct(V.price, V.metrics.vwap, V.config.vwap_distance_pct)
    /\ ~ExceedsFraction(V.price, V.metrics.vwap, V.config.vwap_distance_pct)
    /\ ~V.result.allow
    /\ V.result.reason.text = VwapFarText

(***************************************************************************)
(* Properties of the analyzer's anomaly flag                               *)
(***************************************************************************)
\* The z-score of the last metrics is above 2.5 / below -2.5.
ZHigh == ~FLeRat(M.z_score, 25, 10)
ZLow  == ~FGeRat(M.z_score, -25, 10)

\* C22 (as stated): in every metrics snapshot anomaly is True iff
\* |z_score| > 2.5, and anomaly_type is high_volume when z_score > 2.5,
\* low_volume when z_score < -2.5 and none otherwise, so that it always lies
\* in {none, high_volume, low_volume}.
C22_AnomalyTypeNone ==
    Analyzed =>
        /\ M.anomaly <=> (ZHigh \/ ZLow)
        /\ M.anomaly_type = (IF ZHigh THEN "high_volume"
                             ELSE IF ZLow THEN "low_volume" ELSE "none")
        /\ M.anomaly_type \in {"none", "high_volume", "low_volume"}

\* C22 (amended): in every metrics snapshot anomaly is True iff
\* |z_score| > 2.5, and anomaly_type is high_volume when z_score > 2.5,
\* low_volume when z_score < -2.5 and the empty string otherwise.
C22_AnomalyTier ==
    Analyzed =>
        /\ M.anomaly <=> (ZHigh \/ ZLow)
        /\ M.anomaly_type = (IF ZHigh THEN "high_volume"
                             ELSE IF ZLow THEN "low_volume" ELSE "")
        /\ M.anomaly_type \in {"", "high_volume", "low_volume"}

\* C22 witness: a snapshot with a z-score below -2.5, flagged and typed
\* low_volume.
C22_Witness == Analyzed /\ ZLow /\ M.anomaly /\ M.anomaly_type = "low_volume"

(***************************************************************************)
(* Properties of the simple moving average                                 *)
(***************************************************************************)
\* The integer sum of the last n of a list of whole-number volumes.
RECURSIVE IntSumLast(_, _)
IntSumLast(values, n) ==
    IF n = 0 \/ values = <<>> THEN 0
    ELSE IntOf(values[Len(values)]) + IntSumLast(FirstN(values, Len(values) - 1), n - 1)

\* The volumes of the window are whole numbers.
WholeVolumes == \A i \in 1..Len(Window) : Window[i][2] >= 0

\* C23: after any sequence of analyze_candle calls, volume_sma is the mean of
\* the last min(window_size, sma_periods) volumes of the window, the candle
\* just appended included; below sma_periods samples it is the mean of what
\* there is.
C23_SmaOfRecent ==
    (Analyzed /\ WholeVolumes) =>
        /\ Window[Len(Window)] = History[Len(History)][2]
        /\ M.volume_sma = FDiv(FromInt(IntSumLast(Window, SmaCount)), FromInt(SmaCount))

\* C23 witness: fewer than sma_periods volumes in the window, not all equal,
\* and a positive SMA reported.
C23_Witness ==
    /\ Analyzed
    /\ WholeVolumes
    /\ Len(Window) < analyzer.sma_periods
    /\ Len(Window) >= 2
    /\ Window[1] # Window[Len(Window)]
    /\ FGt(M.volume_sma, Zero)

(***************************************************************************)
(* Properties of the EMA threaded through the backtest loop                *)
(***************************************************************************)
\* alpha = 2 / (ema_periods + 1)
Alpha == FDiv(FromInt(2), FromInt(analyzer.ema_periods + 1))

\* The volume_ema of decision i.
EmaOf(i) == bt.decisions[i].metrics.volume_ema

\* C24: in the backtest loop the first evaluated candle is analysed with no
\* previous EMA, so its volume_ema is its own volume, and every later
\* evaluated candle i gets ema_i = volume_i * alpha + ema_(i-1) * (1 - alpha),
\* alpha = 2 / (ema_periods + 1), from the volume_ema of decision i - 1.
C24_EmaRecurrence ==
    \A i \in 1..Len(bt.decisions) :
        EmaOf(i) = IF i = 1 THEN Evaluated[1].volume
                   ELSE FAdd(FMul(Evaluated[i].volume, Alpha),
                             FMul(EmaOf(i - 1), FSub(FromInt(1), Alpha)))

\* C24 witness: three decisions whose first two volumes differ, so that the
\* second EMA lies strictly between them.
C24_Witness ==
    /\ Len(bt.decisions) = 3
    /\ FLt(Evaluated[1].volume, Evaluated[2].volume)
    /\ FLt(EmaOf(1), EmaOf(2))
    /\ FLt(EmaOf(2), Evaluated[2].volume)
    /\ EmaOf(3) # Evaluated[3].volume

(***************************************************************************)
(* Tapes that outgrow the VWAP window                                      *)
(***************************************************************************)
\* A tape of n candles: the first `head` at one (close, volume), the rest at
\* another.
LongTape(n, head, first, rest) ==
    [i \in 1..n |->
        IF i <= head THEN Candle(i, FromInt(first[1]), FromInt(first[2]))
        ELSE Candle(i, FromInt(rest[1]), FromInt(rest[2]))]

LongTapes ==
    {LongTape(MaxTapeCandles, head, <<200, 8>>, rest) :
        head \in 1..(MaxTapeCandles - VwapWindow), rest \in {<<100, 1>>, <<100, 0>>}}

InitLongTape ==
    /\ inputs = {}
    /\ candles \in LongTapes
    /\ \E p \in StreamPeriods : analyzer = NewAnalyzer(p[1], p[2])
    /\ metrics = <<>>
    /\ NoReplay /\ NoFilter /\ NoProfile /\ NoBacktest /\ Elsewhere

NextLongTape == FeedTape

SpecLongTape == InitLongTape /\ [][NextLongTape]_vars

(***************************************************************************)
(* Properties of the VWAP window                                           *)
(***************************************************************************)
\* The number of analyze_candle calls so far.
Calls == Len(History)

\* The candles of the tape the last VWAP is taken over: the last
\* min(n, 50) of the n fed.
Trailing == LastN(FirstN(candles, Calls), Min(Calls, 50))

\* Sum of close * volume, and of volume, over a list of whole-number candles.
RECURSIVE TurnoverOf(_)
TurnoverOf(list) ==
    IF list = <<>> THEN 0
    ELSE IntOf(list[1].close) * IntOf(list[1].volume) + TurnoverOf(Tail(list))

RECURSIVE VolumeOf(_)
VolumeOf(list) ==
    IF list = <<>> THEN 0 ELSE IntOf(list[1].volume) + VolumeOf(Tail(list))

\* C25: after n analyze_candle calls the vwap is
\* sum(close * volume) / sum(volume) over the last min(n, 50) (close, volume)
\* pairs only, and 0 when their total volume is 0.
C25_VwapTrailingFifty ==
    Analyzed =>
        M.vwap = IF VolumeOf(Trailing) = 0 THEN Zero
                 ELSE FDiv(FromInt(TurnoverOf(Trailing)), FromInt(VolumeOf(Trailing)))

\* C25 witness: more than 50 calls made, the pairs older than the trailing 50
\* carried volume at another price, and the vwap is the price of the trailing
\* pairs alone.
C25_Witness ==
    /\ Analyzed
    /\ Calls > 50
    /\ candles[1].close # candles[Calls].close
    /\ FGt(candles[1].volume, Zero)
    /\ M.vwap = candles[Calls].close

\* C25 witness, continued: more than 50 calls made and the trailing pairs
\* without volume, although older pairs had some: the vwap is 0.
C25_WitnessZero ==
    /\ Analyzed
    /\ Calls > 50
    /\ FGt(candles[1].volume, Zero)
    /\ VolumeOf(Trailing) = 0
    /\ M.vwap = Zero

(***************************************************************************)
(* Properties of the warmup                                                *)
(***************************************************************************)
\* The number of leading candles the backtest skips.
Skipped == Min(bt.warmup, Len(candles))

\* C26: the warmup lets the rolling windows fill before evaluation: once a
\* verdict has been evaluated, the analyzer's volume window holds the volumes
\* of the skipped candles as well as those of the evaluated ones, up to its
\* capacity.
C26_WarmupFillsWindow ==
    (bt.pc = "loop" /\ bt.decisions # <<>>) =>
        Len(Window) = Min(Skipped + Len(bt.decisions), analyzer.maxlen)

(***************************************************************************)
(* make_decision over snapshots around the two z-score tiers               *)
(***************************************************************************)
\* Snapshots with z-scores on both sides of the analyzer's tier (2.5) and
\* beyond the filter's default tier (2.0).
TierMetrics ==
    {SyntheticMetrics(ratio, z, trend, vwap) :
        ratio \in {Lit(1, 4), FromInt(1), FromInt(4)},
        z     \in {Lit(-11, 4), Lit(-9, 4), Zero, Lit(9, 4), Lit(11, 4)},
        trend \in {"increasing", "stable"},
        vwap  \in {Zero, FromInt(100)}}

InitClassify ==
    /\ inputs = {}
    /\ candles = <<>>
    /\ analyzer = NewAnalyzer(2, 3)
    /\ metrics = <<>>
    /\ config \in Configs
    /\ verdict = <<>>
    /\ NoReplay /\ NoProfile /\ NoBacktest /\ Elsewhere

\* decision = volume_filter.make_decision(candle, metrics, coin) for a
\* snapshot and the candle it came from.
ClassifySnapshot ==
    /\ \E m \in TierMetrics, price \in FilterPrices :
          /\ metrics' = <<m>>
          /\ verdict' = <<make_decision(config, Candle(m.timestamp, price, m.volume),
                                        m, "BTC")>>
    /\ UNCHANGED <<inputs, candles, analyzer, scale, scaled_analyzer,
                   scaled_metrics, config, profile, bt, symbols, store, sizing>>

NextClassify == ClassifySnapshot

SpecClassify == InitClassify /\ [][NextClassify]_vars

(***************************************************************************)
(* Properties of the classification                                        *)
(***************************************************************************)
\* The category the rules are said to map to.
CategoryOfRule(k) ==
    CASE k \in {1, 4} -> "reject_low_volume"
      [] k \in {2, 3} -> "reject_high_volume"
      [] k = 5        -> "reject_no_trend"
      [] k = 6        -> "reject"

\* C27: make_decision classifies every verdict by the rule that fired: allow
\* iff should_allow_entry allowed; rules 1 and 4 (low ratio, low z-score) give
\* reject_low_volume, rules 2 and 3 (ratio spike, high z-score) give
\* reject_high_volume, rule 5 gives reject_no_trend and rule 6 gives reject.
C27_ClassifiedByRule ==
    Decided =>
        D.decision = IF FailingRules(config, D.metrics, D.price) = {} THEN "allow"
                     ELSE CategoryOfRule(FirstFailing(config, D.metrics, D.price))

(***************************************************************************)
(* Properties of the two z-score tiers                                     *)
(***************************************************************************)
\* |z_score| of the decided snapshot is above 2.5 / in (2.0, 2.5].
BeyondAnalyzerTier ==
    ~FLeRat(D.metrics.z_score, 25, 10) \/ ~FGeRat(D.metrics.z_score, -25, 10)

BetweenTiers ==
    /\ ~BeyondAnalyzerTier
    /\ ~FLeRat(D.metrics.z_score, 2, 1) \/ ~FGeRat(D.metrics.z_score, -2, 1)

\* C28: with the default filter configuration every snapshot the analyzer
\* flags as an anomaly (|z_score| > 2.5) is rejected, whatever the price,
\* and a snapshot it does not flag, with 2.0 < |z_score| <= 2.5, is rejected
\* too: by the filter's z-score rules when the ratio rules 1 and 2 let it
\* through.
C28_AnalyzerTierStricter ==
    (Decided /\ config = DefaultConfig) =>
        /\ D.metrics.anomaly <=> BeyondAnalyzerTier
        /\ D.metrics.anomaly => D.decision # "allow"
        /\ BetweenTiers =>
              /\ ~D.metrics.anomaly
              /\ D.decision # "allow"
              /\ (\A k \in 1..2 : ~RuleFails(k, config, D.metrics, D.price)) =>
                    D.reason.text \in {HighZText, LowZText}

\* C28 witness: under the default configuration a snapshot with
\* 2.0 < z_score <= 2.5, not flagged by the analyzer, is rejected by the
\* filter's high z-score rule.
C28_Witness ==
    /\ Decided
    /\ config = DefaultConfig
    /\ BetweenTiers
    /\ ~D.metrics.anomaly
    /\ D.decision = "reject_high_volume"
    /\ D.reason.text = HighZText

\* C28 witness, continued: a flagged snapshot that passes the ratio rules is
\* rejected under the default configuration.
C28_WitnessFlagged ==
    /\ Decided
    /\ config = DefaultConfig
    /\ D.metrics.anomaly
    /\ D.metrics.volume_ratio = FromInt(1)
    /\ D.decision # "allow"

(***************************************************************************)
(* Properties of the median and the percentiles                            *)
(***************************************************************************)
\* The volumes of the profiled candles, and how many lie below / at or
\* below a value.
ProfiledVolumes == {candles[i].volume : i \in 1..Len(candles)}

CountBelow(x) == Cardinality({i \in 1..Len(candles) : FLt(candles[i].volume, x)})

CountUpTo(x) == Cardinality({i \in 1..Len(candles) : FLe(candles[i].volume, x)})

\* C29: for every non-empty candle list median_volume equals p50_volume, both
\* the element at index count // 2 of the sorted volumes (the upper median of
\* an even count), and every percentile is one of the input volumes.
C29_MedianIsP50 ==
    (Profiled /\ candles # <<>>) =>
        /\ P.median_volume = P.p50_volume
        /\ CountBelow(P.median_volume) <= Len(candles) \div 2
        /\ CountUpTo(P.median_volume) > Len(candles) \div 2
        /\ {P.median_volume, P.p25_volume, P.p50_volume, P.p75_volume,
            P.p90_volume} \subseteq ProfiledVolumes

\* C29 witness: an even count whose two middle volumes differ; the median
\* and p50 are the upper of the two.
C29_Witness ==
    /\ Profiled
    /\ Len(candles) >= 4
    /\ Len(candles) % 2 = 0
    /\ CountBelow(P.median_volume) = Len(candles) \div 2
    /\ P.median_volume = P.p50_volume

(***************************************************************************)
(* PositionSizer (pt_position_sizing.py)                                   *)
(***************************************************************************)
\* PositionSizer(db_path, default_risk_pct, min_risk_pct, max_risk_pct); the
\* database connection plays no part in calculate_position_size.
NewSizer(default_risk_pct, min_risk_pct, max_risk_pct) ==
    [default_risk_pct |-> default_risk_pct,
     min_risk_pct     |-> min_risk_pct,
     max_risk_pct     |-> max_risk_pct]

FMax(a, b) == IF FGt(b, a) THEN b ELSE a

\* The chain of lines 258-265: the branch atr_pct > 8.0 comes after the
\* branch atr_pct > 5.0 of the same if / elif chain.
volatility_factor_of(atr_pct) ==
    IF FLt(atr_pct, FromInt(1)) THEN Lit(15, 10)
    ELSE IF FLt(atr_pct, FromInt(2)) THEN Lit(125, 100)
    ELSE IF FGt(atr_pct, FromInt(5)) THEN Lit(75, 100)
    ELSE IF FGt(atr_pct, FromInt(8)) THEN Lit(5, 10)
    ELSE FromInt(1)

volatility_level_of(atr_pct) ==
    IF FLt(atr_pct, Lit(15, 10)) THEN "LOW"
    ELSE IF FGt(atr_pct, FromInt(5)) THEN "HIGH"
    ELSE "MEDIUM"

\* calculate_position_size(self, account_value, atr, current_price, risk_pct)
\* for current_price # 0: its locals and the PositionSizingResult it returns.
calculate_position_size(self, account_value, atr, current_price, risk_pct) ==
    LET atr_used          == IF atr = Zero THEN FMul(current_price, Lit(2, 100)) ELSE atr
        risk_to_use       == IF risk_pct # None THEN risk_pct[1] ELSE self.default_risk_pct
        atr_pct           == FMul(FDiv(atr_used, current_price), FromInt(100))
        volatility_factor == volatility_factor_of(atr_pct)
        position_pct      == FMax(self.min_risk_pct,
                                  FMin(FMul(risk_to_use, volatility_factor),
                                       self.max_risk_pct))
        position_size_usd == FMul(account_value, position_pct)
    IN  [atr_pct           |-> atr_pct,
         risk_to_use       |-> risk_to_use,
         volatility_factor |-> volatility_factor,
         position_pct      |-> position_pct,
         result            |->
             [symbol            |-> "",
              position_size_usd |-> position_size_usd,
              position_size_pct |-> FMul(position_pct, FromInt(100)),
              risk_amount       |-> FMul(position_size_usd, risk_to_use),
              atr               |-> atr_used,
              volatility_level  |-> volatility_level_of(atr_pct)]]

\* The sizers, account values, prices, ATRs and risk percentages tried.
Sizers ==
    {NewSizer(Lit(2, 100), Lit(1, 100), Lit(10, 100)),
     NewSizer(Lit(5, 100), Lit(2, 100), Lit(6, 100))}

AccountValues == {FromInt(1000), FromInt(50000)}

SizingPrices == {FromInt(100), FromInt(50)}

Atrs == {Zero, Lit(1, 2), FromInt(1), Lit(3, 2), FromInt(2), FromInt(3), FromInt(5),
         FromInt(6), FromInt(8), FromInt(9), FromInt(10)}

RiskPcts == {None, Some(Lit(5, 1000)), Some(Lit(2, 100)), Some(Lit(10, 100))}

InitSizing ==
    /\ inputs = {}
    /\ candles = <<>>
    /\ analyzer = NewAnalyzer(2, 3)
    /\ metrics = <<>>
    /\ NoReplay /\ NoFilter /\ NoProfile /\ NoBacktest /\ NoSymbols /\ NoStore
    /\ \E self \in Sizers : sizing = [self |-> self, call |-> <<>>]

\* sizer.calculate_position_size(account_value, atr, current_price, risk_pct)
CalculatePositionSize ==
    /\ \E account_value \in AccountValues, atr \in Atrs,
          current_price \in SizingPrices, risk_pct \in RiskPcts :
          sizing' = [sizing EXCEPT !.call =
                        <<calculate_position_size(sizing.self, account_value, atr,
                                                  current_price, risk_pct)>>]
    /\ UNCHANGED <<inputs, candles, analyzer, metrics, scale, scaled_analyzer,
                   scaled_metrics, config, verdict, profile, bt, symbols, store>>

NextSizing == CalculatePositionSize

SpecSizing == InitSizing /\ [][NextSizing]_vars

(***************************************************************************)
(* Properties of the position size                                         *)
(***************************************************************************)
Sized == sizing # <<>> /\ sizing.call # <<>>

\* The last call: its locals and result.
S == sizing.call[1]

\* The volatility factor by ATR percentage tier, as stated.
FactorByTier(atr_pct) ==
    IF FLt(atr_pct, FromInt(1)) THEN Lit(15, 10)
    ELSE IF FLt(atr_pct, FromInt(2)) THEN Lit(125, 100)
    ELSE IF FLe(atr_pct, FromInt(5)) THEN FromInt(1)
    ELSE IF FLe(atr_pct, FromInt(8)) THEN Lit(75, 100)
    ELSE Lit(5, 10)

\* C30: calculate_position_size picks the volatility factor by ATR percentage
\* tier (1.5 below 1.0, 1.25 in [1.0, 2.0), 1.0 in [2.0, 5.0], 0.75 in
\* (5.0, 8.0], 0.5 above 8.0), and the position fraction risk * factor is
\* clamped into [min_risk_pct, max_risk_pct].
C30_FactorByTier ==
    Sized =>
        /\ S.volatility_factor = FactorByTier(S.atr_pct)
        /\ FGe(S.position_pct, sizing.self.min_risk_pct)
        /\ FLe(S.position_pct, sizing.self.max_risk_pct)

====
